---- MODULE Spec2Model ----
(***************************************************************************)
(* A model of the gb emulator core: the flat memory image, the operand     *)
(* (slot) model, the two opcode decoders (the memory/program-counter       *)
(* decoder of decoder.rs and the iterator decoder of main.rs), and the     *)
(* instruction executor of bin/emulator.rs, with the register file         *)
(* accessors of emulation/registers.rs and the annotation file parser of   *)
(* annotations.rs.                                                         *)
(***************************************************************************)
EXTENDS Integers, Sequences, FiniteSets, TLC

VARIABLES
    prog,       \* which entry point is running: "emulator", "main", "execute", "slots",
                \* "memory", "registers", "annotations", "disassemble", "main_disassemble"
    checked,    \* build profile: TRUE when integer overflow checks are compiled in
    bios,       \* the raw byte buffer handed to the entry point
    memory,     \* Memory: the non-zero cells of the 64 KiB image
    registers,  \* Registers of bin/emulator.rs
    clock,      \* the clock counter passed to execute
    it,         \* IndexedIter: the remaining elements and the index
    decoded,    \* outcome of the last decode / slot parse
    result,     \* outcome of the last execute
    pre,        \* registers and memory as they were when the last execute was called
    last,       \* the operation that produced the current state
    steps,      \* number of operations performed so far
    writes,     \* the Memory::set calls made since the image was loaded, oldest first
    arg,        \* the argument of the last call on the register file
    annotations,\* the mapping returned by the last Annotation::parse
    idx,        \* the index of the disassembly loop of bin/disassemble.rs
    printed,    \* what the last iteration of a disassembly loop printed
    calls       \* the Options the direct next() calls on the iterator returned, oldest first

vars == <<prog, checked, bios, memory, registers, clock, it, decoded, result, pre, last, steps,
          writes, arg, annotations, idx, printed, calls>>

(***************************************************************************)
(* Bounds of the model.                                                    *)
(***************************************************************************)
MaxLen == 3
MaxSteps == 4

U8 == 256
U16 == 65536
Byte == 0 .. 255

\* Bytes the bounded images are built from: opcodes with every kind of
\* immediate, the extended prefix, and operand bytes.
Alphabet == {0, 1, 18, 52, 24, 32, 50, 119, 203, 124, 253, 255}

RECURSIVE SeqsUpTo(_, _)
SeqsUpTo(S, n) ==
    IF n = 0 THEN {<<>>}
    ELSE LET shorter == SeqsUpTo(S, n - 1)
         IN shorter \cup {Append(s, x) : s \in {t \in shorter : Len(t) = n - 1}, x \in S}

Images ==
    {<<b>> : b \in Byte} \cup {<<203, b>> : b \in Byte}
        \cup (SeqsUpTo(Alphabet, MaxLen) \ {<<>>})

(***************************************************************************)
(* Slots (slots.rs).                                                       *)
(***************************************************************************)
NoSlot == [kind |-> "None", reg |-> "", val |-> 0]

r8(r) == [kind |-> "Register8", reg |-> r, val |-> 0]

r16(r) == [kind |-> "Register16", reg |-> r, val |-> 0]

addr(r) == [kind |-> "AddrRegister", reg |-> r, val |-> 0]

Addr8(v) == [kind |-> "Addr8", reg |-> "", val |-> v]

Addr16(v) == [kind |-> "Addr16", reg |-> "", val |-> v]

Data8(v) == [kind |-> "Data8", reg |-> "", val |-> v]

Data16(v) == [kind |-> "Data16", reg |-> "", val |-> v]

(***************************************************************************)
(* Opcodes (decoder.rs, main.rs).  One record shape for every variant:     *)
(* s1, s2 are Slot payloads, r1, r2 register payloads, n a numeric one.    *)
(***************************************************************************)
Op(name, a, b, x, y, k) == [op |-> name, s1 |-> a, s2 |-> b, r1 |-> x, r2 |-> y, n |-> k]

Nop == Op("Nop", NoSlot, NoSlot, "", "", 0)
Halt == Op("Halt", NoSlot, NoSlot, "", "", 0)
Ret == Op("Ret", NoSlot, NoSlot, "", "", 0)
Ld(to, from) == Op("Ld", to, from, "", "", 0)
Call(s) == Op("Call", s, NoSlot, "", "", 0)
Inc(s) == Op("Inc", s, NoSlot, "", "", 0)
Cp(a, b) == Op("Cp", a, b, "", "", 0)
Dec(s) == Op("Dec", s, NoSlot, "", "", 0)
Sub(s) == Op("Sub", s, NoSlot, "", "", 0)
LdDec(r) == Op("LdDec", NoSlot, NoSlot, r, "", 0)
LdInc(r) == Op("LdInc", NoSlot, NoSlot, r, "", 0)
RotLeft(r) == Op("RotLeft", NoSlot, NoSlot, r, "", 0)
Push(r) == Op("Push", NoSlot, NoSlot, r, "", 0)
Pop(r) == Op("Pop", NoSlot, NoSlot, r, "", 0)
Xor(r) == Op("Xor", NoSlot, NoSlot, r, "", 0)
ComplBit(k, r) == Op("ComplBit", NoSlot, NoSlot, r, "", k)
Jump(k) == Op("Jump", NoSlot, NoSlot, "", "", k)
JumpRZMemOffset(k) == Op("JumpRZMemOffset", NoSlot, NoSlot, "", "", k)
JumpRNZMemOffset(k) == Op("JumpRNZMemOffset", NoSlot, NoSlot, "", "", k)
\* variants that exist only in the Opcode enum of main.rs
LdToMemDec(to, from) == Op("LdToMemDec", NoSlot, NoSlot, to, from, 0)
LdToMemInc(to, from) == Op("LdToMemInc", NoSlot, NoSlot, to, from, 0)
MainXor(to, from) == Op("Xor", NoSlot, NoSlot, to, from, 0)

NoOp == Op("None", NoSlot, NoSlot, "", "", 0)

\* `x as i8` for a byte x
AsI8(x) == IF x >= 128 THEN x - U8 ELSE x

(***************************************************************************)
(* Memory (decoder.rs).  The image is zero-initialised; the model keeps    *)
(* the non-zero cells only, so equal images are equal values.              *)
(***************************************************************************)
\* a size check that lets a full 65,536-byte image through
from_raw_full(data) ==
    IF Len(data) > 65536
    THEN [ok |-> FALSE, mem |-> << >>]
    ELSE [ok |-> TRUE,
          mem |-> [a \in {i - 1 : i \in {j \in 1 .. Len(data) : data[j] # 0}} |-> data[a + 1]]]

from_raw(data) ==
    IF Len(data) > 65535
    THEN [ok |-> FALSE, mem |-> << >>]
    ELSE [ok |-> TRUE,
          mem |-> [a \in {i - 1 : i \in {j \in 1 .. Len(data) : data[j] # 0}} |-> data[a + 1]]]

get(mem, pc) == IF pc \in DOMAIN mem THEN mem[pc] ELSE 0

\* an index narrowed to 8 bits
set_low_byte(mem, pc, value) ==
    [a \in (IF value = 0 THEN DOMAIN mem \ {pc % 256} ELSE DOMAIN mem \cup {pc % 256}) |->
        IF a = pc % 256 THEN value ELSE mem[a]]

set(mem, pc, value) ==
    [a \in (IF value = 0 THEN DOMAIN mem \ {pc} ELSE DOMAIN mem \cup {pc}) |->
        IF a = pc THEN value ELSE mem[a]]

(***************************************************************************)
(* The decoder over Memory and a u16 program counter (decoder.rs).         *)
(* A cursor step is [value/slot, pc, panic]: `*pc += 1` on pc = 0xFFFF     *)
(* panics when overflow checks are compiled in and wraps otherwise.        *)
(***************************************************************************)
\* fetch that forgets `*pc += 1`
fetch_stuck(data, pc) == [value |-> get(data, pc), pc |-> pc, panic |-> FALSE]

fetch(data, pc) ==
    [value |-> get(data, pc), pc |-> (pc + 1) % U16, panic |-> checked /\ pc = U16 - 1]

\* The (Memory, pc) forms of the slot parsers called by decoder.rs.
mem_parse_u8(data, cur) ==
    IF cur.panic THEN [value |-> 0, pc |-> cur.pc, panic |-> TRUE]
    ELSE [value |-> get(data, cur.pc), pc |-> (cur.pc + 1) % U16,
          panic |-> checked /\ cur.pc = U16 - 1]

mem_parse_u16(data, cur) ==
    LET lo == mem_parse_u8(data, cur)
        hi == mem_parse_u8(data, lo)
    IN [value |-> hi.value * 256 + lo.value, pc |-> hi.pc, panic |-> hi.panic]

mem_parse_d8(data, cur) ==
    LET v == mem_parse_u8(data, cur) IN [slot |-> Data8(v.value), pc |-> v.pc, panic |-> v.panic]

mem_parse_a8(data, cur) ==
    LET v == mem_parse_u8(data, cur) IN [slot |-> Addr8(v.value), pc |-> v.pc, panic |-> v.panic]

mem_parse_d16(data, cur) ==
    LET v == mem_parse_u16(data, cur) IN [slot |-> Data16(v.value), pc |-> v.pc, panic |-> v.panic]

mem_parse_a16(data, cur) ==
    LET v == mem_parse_u16(data, cur) IN [slot |-> Addr16(v.value), pc |-> v.pc, panic |-> v.panic]

\* Results of a decode: tag is "Ok", "EndOfStream", "UnknownOpcode",
\* "UnknownExtendedOpcode" or "Panic"; cur is the cursor the call leaves.
Decoded(op, cur) ==
    [tag |-> IF cur.panic THEN "Panic" ELSE "Ok", op |-> IF cur.panic THEN NoOp ELSE op,
     byte |-> 0, cur |-> cur.pc]

DecodeErr(tag, b, cur) == [tag |-> tag, op |-> NoOp, byte |-> b, cur |-> cur]

\* the catch-all arm of decode: Err(DecodeError::UnknownOpcode(opcode))
unknown_byte_skipped(opcode, cur) == [tag |-> "Ok", op |-> Nop, byte |-> 0, cur |-> cur]

unknown_byte(opcode, cur) == DecodeErr("UnknownOpcode", opcode, cur)

\* decode_extended reporting a miss with the error of the direct table
decode_extended_direct(data, cur) ==
    CASE data = 17 -> [tag |-> "Ok", op |-> RotLeft("C"), byte |-> 0, cur |-> cur]
      [] data = 124 -> [tag |-> "Ok", op |-> ComplBit(7, "H"), byte |-> 0, cur |-> cur]
      [] data = 79 -> [tag |-> "Ok", op |-> ComplBit(1, "A"), byte |-> 0, cur |-> cur]
      [] OTHER -> DecodeErr("UnknownOpcode", data, cur)

decode_extended(data, cur) ==
    CASE data = 17 -> [tag |-> "Ok", op |-> RotLeft("C"), byte |-> 0, cur |-> cur]
      [] data = 124 -> [tag |-> "Ok", op |-> ComplBit(7, "H"), byte |-> 0, cur |-> cur]
      [] data = 79 -> [tag |-> "Ok", op |-> ComplBit(1, "A"), byte |-> 0, cur |-> cur]
      [] OTHER -> DecodeErr("UnknownExtendedOpcode", data, cur)

mapping ==
    <<r8("B"), r8("C"), r8("D"), r8("E"), r8("H"), r8("L"), addr("HL"), r8("A")>>

\* the load block with destination and source bit groups exchanged
ld_block_swapped(opcode) ==
    LET address == opcode - 64
    IN Ld(mapping[(address % 8) + 1], mapping[(address \div 8) + 1])

ld_block(opcode) ==
    LET address == opcode - 64
    IN Ld(mapping[(address \div 8) + 1], mapping[(address % 8) + 1])

decode(data, pc) ==
    LET opcode == get(data, pc)
        c1 == [pc |-> (pc + 1) % U16, panic |-> checked /\ pc = U16 - 1]
        f == fetch(data, c1.pc)
        d8 == mem_parse_d8(data, c1)
        d16 == mem_parse_d16(data, c1)
        a8 == mem_parse_a8(data, c1)
        a16 == mem_parse_a16(data, c1)
    IN IF c1.panic THEN [tag |-> "Panic", op |-> NoOp, byte |-> 0, cur |-> pc]
       ELSE IF opcode = 203 THEN decode_extended(get(data, c1.pc), c1.pc)
       ELSE IF opcode >= 64 /\ opcode < 128
            THEN IF opcode = 118 THEN Decoded(Halt, c1) ELSE Decoded(ld_block(opcode), c1)
       ELSE CASE
               opcode = 0 -> Decoded(Nop, c1)
            [] opcode = 1 -> Decoded(Ld(r16("BC"), d16.slot), d16)
            [] opcode = 2 -> Decoded(Ld(addr("BC"), r8("A")), c1)
            [] opcode = 3 -> Decoded(Inc(r16("BC")), c1)
            [] opcode = 4 -> Decoded(Inc(r8("B")), c1)
            [] opcode = 5 -> Decoded(Dec(r8("B")), c1)
            [] opcode = 6 -> Decoded(Ld(r8("B"), d8.slot), d8)
            [] opcode = 12 -> Decoded(Inc(r8("C")), c1)
            [] opcode = 13 -> Decoded(Dec(r8("C")), c1)
            [] opcode = 14 -> Decoded(Ld(r8("C"), d8.slot), d8)
            [] opcode = 17 -> Decoded(Ld(r16("DE"), d16.slot), d16)
            [] opcode = 19 -> Decoded(Inc(r16("DE")), c1)
            [] opcode = 20 -> Decoded(Inc(r8("D")), c1)
            [] opcode = 21 -> Decoded(Dec(r8("D")), c1)
            [] opcode = 22 -> Decoded(Ld(r8("D"), d8.slot), d8)
            [] opcode = 23 -> Decoded(RotLeft("A"), c1)
            [] opcode = 24 -> Decoded(Jump(AsI8(f.value)), f)
            [] opcode = 26 -> Decoded(Ld(r8("A"), addr("DE")), c1)
            [] opcode = 27 -> Decoded(Dec(r16("DE")), c1)
            [] opcode = 28 -> Decoded(Inc(r8("E")), c1)
            [] opcode = 29 -> Decoded(Dec(r8("E")), c1)
            [] opcode = 30 -> Decoded(Ld(r8("E"), d8.slot), d8)
            [] opcode = 32 -> Decoded(JumpRNZMemOffset(AsI8(f.value)), f)
            [] opcode = 33 -> Decoded(Ld(r16("HL"), d16.slot), d16)
            [] opcode = 34 -> Decoded(LdInc("A"), c1)
            [] opcode = 35 -> Decoded(Inc(r16("HL")), c1)
            [] opcode = 36 -> Decoded(Inc(r8("H")), c1)
            [] opcode = 37 -> Decoded(Dec(r8("H")), c1)
            [] opcode = 40 -> Decoded(JumpRZMemOffset(AsI8(f.value)), f)
            [] opcode = 46 -> Decoded(Ld(r8("L"), d8.slot), d8)
            [] opcode = 49 -> Decoded(Ld(r16("SP"), d16.slot), d16)
            [] opcode = 50 -> Decoded(LdDec("A"), c1)
            [] opcode = 52 -> Decoded(Inc(addr("HL")), c1)
            [] opcode = 53 -> Decoded(Dec(addr("HL")), c1)
            [] opcode = 61 -> Decoded(Dec(r8("A")), c1)
            [] opcode = 62 -> Decoded(Ld(r8("A"), d8.slot), d8)
            [] opcode = 144 -> Decoded(Sub(r8("B")), c1)
            [] opcode = 145 -> Decoded(Sub(r8("C")), c1)
            [] opcode = 146 -> Decoded(Sub(r8("D")), c1)
            [] opcode = 147 -> Decoded(Sub(r8("E")), c1)
            [] opcode = 148 -> Decoded(Sub(r8("H")), c1)
            [] opcode = 149 -> Decoded(Sub(r8("L")), c1)
            [] opcode = 150 -> Decoded(Sub(addr("HL")), c1)
            [] opcode = 151 -> Decoded(Sub(r8("A")), c1)
            [] opcode = 175 -> Decoded(Xor("A"), c1)
            [] opcode = 193 -> Decoded(Pop("BC"), c1)
            [] opcode = 197 -> Decoded(Push("BC"), c1)
            [] opcode = 201 -> Decoded(Ret, c1)
            [] opcode = 205 -> Decoded(Call(d16.slot), d16)
            [] opcode = 224 -> Decoded(Ld(a8.slot, r8("A")), a8)
            [] opcode = 226 -> Decoded(Ld(addr("C"), r8("A")), c1)
            [] opcode = 234 -> Decoded(Ld(a16.slot, r8("A")), a16)
            [] opcode = 240 -> Decoded(Ld(r8("A"), a8.slot), a8)
            [] opcode = 241 -> Decoded(Pop("AF"), c1)
            [] opcode = 254 -> Decoded(Cp(r8("A"), d8.slot), d8)
              [] OTHER -> unknown_byte(opcode, c1.pc)
(***************************************************************************)
(* IndexedIter (indexediter.rs): a vector iterator that counts the         *)
(* elements it has handed out.                                             *)
(***************************************************************************)
from_vec(vec) == [it |-> vec, index |-> 0]

next_always_counts(self) ==
    IF self.it # << >>
    THEN [some |-> TRUE, value |-> Head(self.it),
          self |-> [it |-> Tail(self.it), index |-> self.index + 1]]
    ELSE [some |-> FALSE, value |-> 0, self |-> [self EXCEPT !.index = self.index + 1]]

next(self) ==
    IF self.it # << >>
    THEN [some |-> TRUE, value |-> Head(self.it),
          self |-> [it |-> Tail(self.it), index |-> self.index + 1]]
    ELSE [some |-> FALSE, value |-> 0, self |-> self]

index(self) == self.index

(***************************************************************************)
(* Slot parsers over a byte iterator (slots.rs).  A step is                *)
(* [ok, value/slot, data]; ok = FALSE stands for Err(EndOfStream).         *)
(***************************************************************************)
\* big-endian assembly of the two bytes
from_be_bytes(b0, b1) == b0 * 256 + b1

from_le_bytes(b0, b1) == b0 + b1 * 256

decode_u8(data) ==
    LET n == next(data) IN [ok |-> n.some, value |-> n.value, data |-> n.self]

decode_u16(data) ==
    LET n0 == next(data)
        n1 == next(n0.self)
    IN IF ~n0.some THEN [ok |-> FALSE, value |-> 0, data |-> n0.self]
       ELSE IF ~n1.some THEN [ok |-> FALSE, value |-> 0, data |-> n1.self]
       ELSE [ok |-> TRUE, value |-> from_le_bytes(n0.value, n1.value), data |-> n1.self]

parse_a16(data) ==
    LET v == decode_u16(data) IN [ok |-> v.ok, slot |-> Addr16(v.value), data |-> v.data]

parse_a8(data) ==
    LET v == decode_u8(data) IN [ok |-> v.ok, slot |-> Addr8(v.value), data |-> v.data]

parse_d16(data) ==
    LET v == decode_u16(data) IN [ok |-> v.ok, slot |-> Data16(v.value), data |-> v.data]

parse_d8(data) ==
    LET v == decode_u8(data) IN [ok |-> v.ok, slot |-> Data8(v.value), data |-> v.data]

(***************************************************************************)
(* The decoder over a byte iterator (main.rs).                             *)
(***************************************************************************)
MainDecoded(op, cur) ==
    IF cur.ok THEN [tag |-> "Ok", op |-> op, byte |-> 0, cur |-> cur.data]
    ELSE DecodeErr("EndOfStream", 0, cur.data)

main_decode_extended(data, cur) ==
    CASE data = 17 -> [tag |-> "Ok", op |-> RotLeft("C"), byte |-> 0, cur |-> cur]
      [] data = 124 -> [tag |-> "Ok", op |-> ComplBit(7, "H"), byte |-> 0, cur |-> cur]
      [] data = 79 -> [tag |-> "Ok", op |-> ComplBit(1, "A"), byte |-> 0, cur |-> cur]
      [] OTHER -> DecodeErr("UnknownExtendedOpcode", data, cur)

main_mapping ==
    <<r8("B"), r8("C"), r8("D"), r8("E"), r8("H"), r8("L"), addr("HL"), r8("A")>>

main_ld_block(opcode) ==
    LET address == opcode - 64
    IN Ld(main_mapping[(address \div 8) + 1], main_mapping[(address % 8) + 1])

main_decode(data) ==
    LET n == next(data)
        opcode == n.value
        c1 == [ok |-> TRUE, data |-> n.self]
        x == next(n.self)
        f == decode_u8(n.self)
        d8 == parse_d8(n.self)
        d16 == parse_d16(n.self)
        a8 == parse_a8(n.self)
        a16 == parse_a16(n.self)
    IN IF ~n.some THEN DecodeErr("EndOfStream", 0, n.self)
       ELSE IF opcode = 203
            THEN IF ~x.some THEN DecodeErr("EndOfStream", 0, x.self)
                 ELSE main_decode_extended(x.value, x.self)
       ELSE IF opcode >= 64 /\ opcode < 128
            THEN IF opcode = 118 THEN MainDecoded(Halt, c1)
                 ELSE MainDecoded(main_ld_block(opcode), c1)
       ELSE CASE
               opcode = 0 -> MainDecoded(Nop, c1)
            [] opcode = 1 -> MainDecoded(Ld(r16("BC"), d16.slot), d16)
            [] opcode = 2 -> MainDecoded(Ld(addr("BC"), r8("A")), c1)
            [] opcode = 3 -> MainDecoded(Inc(r16("BC")), c1)
            [] opcode = 4 -> MainDecoded(Inc(r8("B")), c1)
            [] opcode = 5 -> MainDecoded(Dec(r8("B")), c1)
            [] opcode = 6 -> MainDecoded(Ld(r8("B"), d8.slot), d8)
            [] opcode = 12 -> MainDecoded(Inc(r8("C")), c1)
            [] opcode = 13 -> MainDecoded(Dec(r8("C")), c1)
            [] opcode = 14 -> MainDecoded(Ld(r8("C"), d8.slot), d8)
            [] opcode = 17 -> MainDecoded(Ld(r16("DE"), d16.slot), d16)
            [] opcode = 19 -> MainDecoded(Inc(r16("DE")), c1)
            [] opcode = 20 -> MainDecoded(Inc(r8("D")), c1)
            [] opcode = 21 -> MainDecoded(Dec(r8("D")), c1)
            [] opcode = 22 -> MainDecoded(Ld(r8("D"), d8.slot), d8)
            [] opcode = 23 -> MainDecoded(RotLeft("A"), c1)
            [] opcode = 24 -> MainDecoded(Jump(AsI8(f.value)), f)
            [] opcode = 26 -> MainDecoded(Ld(r8("A"), addr("DE")), c1)
            [] opcode = 27 -> MainDecoded(Dec(r16("DE")), c1)
            [] opcode = 28 -> MainDecoded(Inc(r8("E")), c1)
            [] opcode = 29 -> MainDecoded(Dec(r8("E")), c1)
            [] opcode = 30 -> MainDecoded(Ld(r8("E"), d8.slot), d8)
            [] opcode = 32 -> MainDecoded(JumpRNZMemOffset(AsI8(f.value)), f)
            [] opcode = 33 -> MainDecoded(Ld(r16("HL"), d16.slot), d16)
            [] opcode = 34 -> MainDecoded(LdToMemInc("HL", "A"), c1)
            [] opcode = 35 -> MainDecoded(Inc(r16("HL")), c1)
            [] opcode = 36 -> MainDecoded(Inc(r8("H")), c1)
            [] opcode = 37 -> MainDecoded(Dec(r8("H")), c1)
            [] opcode = 40 -> MainDecoded(JumpRZMemOffset(AsI8(f.value)), f)
            [] opcode = 46 -> MainDecoded(Ld(r8("L"), d8.slot), d8)
            [] opcode = 49 -> MainDecoded(Ld(r16("SP"), d16.slot), d16)
            [] opcode = 50 -> MainDecoded(LdToMemDec("HL", "A"), c1)
            [] opcode = 52 -> MainDecoded(Inc(addr("HL")), c1)
            [] opcode = 53 -> MainDecoded(Dec(addr("HL")), c1)
            [] opcode = 61 -> MainDecoded(Dec(r8("A")), c1)
            [] opcode = 62 -> MainDecoded(Ld(r8("A"), d8.slot), d8)
            [] opcode = 144 -> MainDecoded(Sub(r8("B")), c1)
            [] opcode = 145 -> MainDecoded(Sub(r8("C")), c1)
            [] opcode = 146 -> MainDecoded(Sub(r8("D")), c1)
            [] opcode = 147 -> MainDecoded(Sub(r8("E")), c1)
            [] opcode = 148 -> MainDecoded(Sub(r8("H")), c1)
            [] opcode = 149 -> MainDecoded(Sub(r8("L")), c1)
            [] opcode = 150 -> MainDecoded(Sub(addr("HL")), c1)
            [] opcode = 151 -> MainDecoded(Sub(r8("A")), c1)
            [] opcode = 175 -> MainDecoded(MainXor("A", "A"), c1)
            [] opcode = 193 -> MainDecoded(Pop("BC"), c1)
            [] opcode = 197 -> MainDecoded(Push("BC"), c1)
            [] opcode = 201 -> MainDecoded(Ret, c1)
            [] opcode = 205 -> MainDecoded(Call(d16.slot), d16)
            [] opcode = 224 -> MainDecoded(Ld(a8.slot, r8("A")), a8)
            [] opcode = 226 -> MainDecoded(Ld(addr("C"), r8("A")), c1)
            [] opcode = 234 -> MainDecoded(Ld(a16.slot, r8("A")), a16)
            [] opcode = 240 -> MainDecoded(Ld(r8("A"), a8.slot), a8)
            [] opcode = 241 -> MainDecoded(Pop("AF"), c1)
            [] opcode = 254 -> MainDecoded(Cp(r8("A"), d8.slot), d8)
              [] OTHER -> DecodeErr("UnknownOpcode", opcode, n.self)

(***************************************************************************)
(* Registers (bin/emulator.rs).                                            *)
(***************************************************************************)
Registers_default ==
    [a |-> 0, b |-> 0, c |-> 0, d |-> 0, e |-> 0, h |-> 0, l |-> 0, f |-> 0, pc |-> 0, sp |-> 0]

\* bit n of x, and (below) x with bit n forced to v
Bit(x, n) == (x \div (2 ^ n)) % 2

\* a write that lands one bit lower
WithBit_shifted(x, n, v) == x - Bit(x, n - 1) * (2 ^ (n - 1)) + (IF v THEN 2 ^ (n - 1) ELSE 0)

WithBit(x, n, v) == x - Bit(x, n) * (2 ^ n) + (IF v THEN 2 ^ n ELSE 0)

\* bitwise or in place of exclusive or
RECURSIVE BitOr(_, _)
BitOr(x, y) ==
    IF x = 0 /\ y = 0 THEN 0
    ELSE (IF (x % 2) + (y % 2) > 0 THEN 1 ELSE 0) + 2 * BitOr(x \div 2, y \div 2)

RECURSIVE BitXor(_, _)
BitXor(x, y) ==
    IF x = 0 /\ y = 0 THEN 0
    ELSE (((x % 2) + (y % 2)) % 2) + 2 * BitXor(x \div 2, y \div 2)

flag_zero(self) == Bit(self.f, 7) # 0

\* a setter that rebuilds F from the flag alone
flag_zero_set_clobber(self, value) == [self EXCEPT !.f = IF value THEN 128 ELSE 0]

flag_zero_set(self, value) == [self EXCEPT !.f = WithBit(self.f, 7, value)]

flag_carry(self) == Bit(self.f, 4) # 0

\* a setter aimed at the neighbouring bit
flag_carry_set_bit5(self, value) == [self EXCEPT !.f = WithBit(self.f, 5, value)]

flag_carry_set(self, value) == [self EXCEPT !.f = WithBit(self.f, 4, value)]

af(self) == self.a * 256 + self.f

bc(self) == self.b * 256 + self.c

de(self) == self.d * 256 + self.e

\* a view with the halves exchanged
hl_swapped(self) == self.l * 256 + self.h

hl(self) == self.h * 256 + self.l

\* a setter that writes the low half only
set_hl_low_only(self, val) == [self EXCEPT !.l = val % U8]

set_hl(self, val) == [self EXCEPT !.h = (val \div 256) % U8, !.l = val % U8]

(***************************************************************************)
(* The executor (bin/emulator.rs).  An outcome is "Ok", "Err" (a typed     *)
(* anyhow error, with its message) or "Panic" (todo!() or an arithmetic    *)
(* overflow with overflow checks compiled in); the registers and memory    *)
(* of the outcome are what the call leaves behind.                         *)
(***************************************************************************)
fetch_register8(register, regs) ==
    CASE register = "A" -> regs.a
      [] register = "B" -> regs.b
      [] register = "C" -> regs.c
      [] register = "D" -> regs.d
      [] register = "E" -> regs.e
      [] register = "H" -> regs.h
      [] register = "L" -> regs.l
      [] register = "F" -> regs.f

fetch_register16(register, regs) ==
    CASE register = "AF" -> af(regs)
      [] register = "BC" -> bc(regs)
      [] register = "DE" -> de(regs)
      [] register = "HL" -> hl(regs)
      [] register = "SP" -> regs.sp

\* a fetch that widens an 8-bit value with its sign
fetch_value_sign_extended(slot, regs, mem) ==
    LET wide(x) == IF x >= 128 THEN x + 65280 ELSE x
    IN CASE slot.kind = "Register8" ->
                [panic |-> FALSE, value |-> wide(fetch_register8(slot.reg, regs))]
         [] slot.kind = "AddrRegister" -> [panic |-> TRUE, value |-> 0]
         [] slot.kind = "Register16" -> [panic |-> FALSE, value |-> fetch_register16(slot.reg, regs)]
         [] slot.kind = "Addr8" ->
               IF checked /\ slot.val + 255 >= U8 THEN [panic |-> TRUE, value |-> 0]
               ELSE [panic |-> FALSE, value |-> wide(get(mem, (slot.val + 255) % U8))]
         [] slot.kind = "Addr16" -> [panic |-> TRUE, value |-> 0]
         [] slot.kind = "Data8" -> [panic |-> FALSE, value |-> wide(slot.val)]
         [] slot.kind = "Data16" -> [panic |-> FALSE, value |-> slot.val]

fetch_value(slot, regs, mem) ==
    CASE slot.kind = "Register8" -> [panic |-> FALSE, value |-> fetch_register8(slot.reg, regs)]
      [] slot.kind = "AddrRegister" -> [panic |-> TRUE, value |-> 0]
      [] slot.kind = "Register16" -> [panic |-> FALSE, value |-> fetch_register16(slot.reg, regs)]
      [] slot.kind = "Addr8" ->
            IF checked /\ slot.val + 255 >= U8 THEN [panic |-> TRUE, value |-> 0]
            ELSE [panic |-> FALSE, value |-> get(mem, (slot.val + 255) % U8)]
      [] slot.kind = "Addr16" -> [panic |-> TRUE, value |-> 0]
      [] slot.kind = "Data8" -> [panic |-> FALSE, value |-> slot.val]
      [] slot.kind = "Data16" -> [panic |-> FALSE, value |-> slot.val]

Outcome(tag, msg, regs, mem, clk) ==
    [tag |-> tag, msg |-> msg, registers |-> regs, memory |-> mem, clock |-> clk]

\* a store that clears the high half of the pair when it writes the low half
set_value_whole_pair(slot, regs, mem, value) ==
    CASE slot.kind = "Register8" ->
            (CASE slot.reg = "A" -> Outcome("Ok", "", [regs EXCEPT !.a = value % U8], mem, 0)
               [] slot.reg = "B" -> Outcome("Ok", "", [regs EXCEPT !.b = value % U8], mem, 0)
               [] slot.reg = "C" -> Outcome("Ok", "", [regs EXCEPT !.b = 0, !.c = value % U8], mem, 0)
               [] slot.reg = "D" -> Outcome("Ok", "", [regs EXCEPT !.d = value % U8], mem, 0)
               [] slot.reg = "E" -> Outcome("Ok", "", [regs EXCEPT !.d = 0, !.e = value % U8], mem, 0)
               [] slot.reg = "H" -> Outcome("Ok", "", [regs EXCEPT !.h = value % U8], mem, 0)
               [] slot.reg = "L" -> Outcome("Ok", "", [regs EXCEPT !.h = 0, !.l = value % U8], mem, 0)
               [] slot.reg = "F" -> Outcome("Err", "Cannot set value to register F", regs, mem, 0))
      [] slot.kind = "AddrRegister" ->
            (CASE slot.reg = "BC" -> Outcome("Ok", "", regs, set(mem, bc(regs), value % U8), 0)
               [] slot.reg = "DE" -> Outcome("Ok", "", regs, set(mem, de(regs), value % U8), 0)
               [] slot.reg = "HL" -> Outcome("Ok", "", regs, set(mem, hl(regs), value % U8), 0)
               [] slot.reg = "C" -> Outcome("Ok", "", regs, set(mem, regs.c + 65280, value % U8), 0))
      [] slot.kind = "Register16" ->
            (CASE slot.reg = "AF" -> Outcome("Err", "Cannot set value to register AF", regs, mem, 0)
               [] slot.reg = "BC" ->
                     Outcome("Ok", "", [regs EXCEPT !.b = (value \div 256) % U8, !.c = value % U8], mem, 0)
               [] slot.reg = "DE" ->
                     Outcome("Ok", "", [regs EXCEPT !.d = (value \div 256) % U8, !.e = value % U8], mem, 0)
               [] slot.reg = "HL" ->
                     Outcome("Ok", "", [regs EXCEPT !.h = (value \div 256) % U8, !.l = value % U8], mem, 0)
               [] slot.reg = "SP" -> Outcome("Ok", "", [regs EXCEPT !.sp = value], mem, 0))
      [] slot.kind = "Addr8" -> Outcome("Ok", "", regs, set(mem, 65280 + slot.val, value % U8), 0)
      [] slot.kind = "Addr16" -> Outcome("Panic", "not yet implemented", regs, mem, 0)
      [] slot.kind = "Data8" -> Outcome("Panic", "not yet implemented", regs, mem, 0)
      [] slot.kind = "Data16" -> Outcome("Panic", "not yet implemented", regs, mem, 0)

set_value(slot, regs, mem, value) ==
    CASE slot.kind = "Register8" ->
            (CASE slot.reg = "A" -> Outcome("Ok", "", [regs EXCEPT !.a = value % U8], mem, 0)
               [] slot.reg = "B" -> Outcome("Ok", "", [regs EXCEPT !.b = value % U8], mem, 0)
               [] slot.reg = "C" -> Outcome("Ok", "", [regs EXCEPT !.c = value % U8], mem, 0)
               [] slot.reg = "D" -> Outcome("Ok", "", [regs EXCEPT !.d = value % U8], mem, 0)
               [] slot.reg = "E" -> Outcome("Ok", "", [regs EXCEPT !.e = value % U8], mem, 0)
               [] slot.reg = "H" -> Outcome("Ok", "", [regs EXCEPT !.h = value % U8], mem, 0)
               [] slot.reg = "L" -> Outcome("Ok", "", [regs EXCEPT !.l = value % U8], mem, 0)
               [] slot.reg = "F" -> Outcome("Err", "Cannot set value to register F", regs, mem, 0))
      [] slot.kind = "AddrRegister" ->
            (CASE slot.reg = "BC" -> Outcome("Ok", "", regs, set(mem, bc(regs), value % U8), 0)
               [] slot.reg = "DE" -> Outcome("Ok", "", regs, set(mem, de(regs), value % U8), 0)
               [] slot.reg = "HL" -> Outcome("Ok", "", regs, set(mem, hl(regs), value % U8), 0)
               [] slot.reg = "C" -> Outcome("Ok", "", regs, set(mem, regs.c + 65280, value % U8), 0))
      [] slot.kind = "Register16" ->
            (CASE slot.reg = "AF" -> Outcome("Err", "Cannot set value to register AF", regs, mem, 0)
               [] slot.reg = "BC" ->
                     Outcome("Ok", "", [regs EXCEPT !.b = (value \div 256) % U8, !.c = value % U8], mem, 0)
               [] slot.reg = "DE" ->
                     Outcome("Ok", "", [regs EXCEPT !.d = (value \div 256) % U8, !.e = value % U8], mem, 0)
               [] slot.reg = "HL" ->
                     Outcome("Ok", "", [regs EXCEPT !.h = (value \div 256) % U8, !.l = value % U8], mem, 0)
               [] slot.reg = "SP" -> Outcome("Ok", "", [regs EXCEPT !.sp = value], mem, 0))
      [] slot.kind = "Addr8" -> Outcome("Ok", "", regs, set(mem, 65280 + slot.val, value % U8), 0)
      [] slot.kind = "Addr16" -> Outcome("Panic", "not yet implemented", regs, mem, 0)
      [] slot.kind = "Data8" -> Outcome("Panic", "not yet implemented", regs, mem, 0)
      [] slot.kind = "Data16" -> Outcome("Panic", "not yet implemented", regs, mem, 0)

\* The legality checks of Ld: the message of the first failing check, "" if none fails.
ld_check_to_only(to, from) ==
    IF to = r8("F") THEN "Invalid 'to' register F in Ld"
    ELSE IF to = r16("AF") THEN "Invalid 'to' register AF in Ld"
    ELSE ""

ld_check(to, from) ==
    IF from = r8("F") THEN "Invalid 'from' register F in Ld"
    ELSE IF from = r16("AF") THEN "Invalid 'from' register AF in Ld"
    ELSE IF to = r8("F") THEN "Invalid 'to' register F in Ld"
    ELSE IF to = r16("AF") THEN "Invalid 'to' register AF in Ld"
    ELSE ""

\* The catch-all arm of execute, and a variant that treats the opcode as a no-op.
unknown_opcode_ok(code, regs, mem, clk) == Outcome("Ok", "", regs, mem, clk)

unknown_opcode(code, regs, mem, clk) == Outcome("Err", "Unknown Opcode", regs, mem, clk)

\* the target of a relative jump, with the displacement taken as unsigned
jump_target_unsigned(pc, offset) == (pc + (offset % U8)) % U16

\* ((registers.pc as i32) + (offset as i32)) as u16
jump_target(pc, offset) == (pc + offset) % U16

execute(code, regs, mem, clk) ==
    CASE code.op = "Xor" ->
            LET value == BitXor(fetch_register8("A", regs), fetch_register8(code.r1, regs))
                sv == set_value(r8("A"), regs, mem, value)
            IN Outcome(sv.tag, sv.msg, sv.registers, sv.memory, IF sv.tag = "Ok" THEN clk + 4 ELSE clk)
      [] code.op = "Ld" ->
            LET bad == ld_check(code.s1, code.s2)
                v == fetch_value(code.s2, regs, mem)
                sv == set_value(code.s1, regs, mem, v.value)
            IN IF bad # "" THEN Outcome("Err", bad, regs, mem, clk)
               ELSE IF v.panic THEN Outcome("Panic", "fetch_value", regs, mem, clk)
               ELSE Outcome(sv.tag, sv.msg, sv.registers, sv.memory, clk)
      [] code.op = "LdDec" ->
            LET v == fetch_value(r8(code.r1), regs, mem)
                sv == set_value(addr("HL"), regs, mem, v.value)
            IN IF checked /\ hl(sv.registers) = 0
               THEN Outcome("Panic", "attempt to subtract with overflow", sv.registers, sv.memory, clk)
               ELSE Outcome("Ok", "", set_hl(sv.registers, (hl(sv.registers) - 1) % U16), sv.memory, clk)
      [] code.op = "LdInc" ->
            LET v == fetch_value(r8(code.r1), regs, mem)
                sv == set_value(addr("HL"), regs, mem, v.value)
            IN IF checked /\ hl(sv.registers) = U16 - 1
               THEN Outcome("Panic", "attempt to add with overflow", sv.registers, sv.memory, clk)
               ELSE Outcome("Ok", "", set_hl(sv.registers, (hl(sv.registers) + 1) % U16), sv.memory, clk)
      [] code.op = "ComplBit" ->
            LET value == fetch_register8(code.r1, regs)
                bit_value == Bit(value, code.n % 8)
            IN IF checked /\ code.n >= 8
               THEN Outcome("Panic", "attempt to shift right with overflow", regs, mem, clk)
               ELSE Outcome("Ok", "", flag_zero_set(regs, bit_value = 0), mem, clk)
      [] code.op = "JumpRNZMemOffset" ->
            IF ~flag_zero(regs)
            THEN Outcome("Ok", "", [regs EXCEPT !.pc = jump_target(regs.pc, code.n)], mem, clk)
            ELSE Outcome("Ok", "", regs, mem, clk)
      [] OTHER -> unknown_opcode(code, regs, mem, clk)

(***************************************************************************)
(* Annotations (annotations.rs).  A text is the sequence of its bytes; an  *)
(* Annotation is [location, purpose, value]; a Result is [ok, err, val].   *)
(***************************************************************************)
AnnOk(v) == [ok |-> TRUE, err |-> "", val |-> v]

AnnErr(e) == [ok |-> FALSE, err |-> e, val |-> << >>]

\* str::split(sep): the pieces between the separators, at least one piece
RECURSIVE split(_, _)
split(s, sep) ==
    IF \A i \in 1 .. Len(s) : s[i] # sep THEN <<s>>
    ELSE LET k == CHOOSE i \in 1 .. Len(s) : s[i] = sep /\ \A j \in 1 .. (i - 1) : s[j] # sep
         IN <<SubSeq(s, 1, k - 1)>> \o split(SubSeq(s, k + 1, Len(s)), sep)

\* str::splitn(n, sep): at most n pieces, the last one holding the rest
RECURSIVE splitn(_, _, _)
splitn(s, n, sep) ==
    IF n = 1 \/ \A i \in 1 .. Len(s) : s[i] # sep THEN <<s>>
    ELSE LET k == CHOOSE i \in 1 .. Len(s) : s[i] = sep /\ \A j \in 1 .. (i - 1) : s[j] # sep
         IN <<SubSeq(s, 1, k - 1)>> \o splitn(SubSeq(s, k + 1, Len(s)), n - 1, sep)

\* char::is_whitespace over the ASCII range
WhiteSpace == {9, 10, 11, 12, 13, 32}

\* l.trim().is_empty()
trim_is_empty(l) == \A i \in 1 .. Len(l) : l[i] \in WhiteSpace

starts_with(l, c) == Len(l) > 0 /\ l[1] = c

\* str::trim_start_matches(p): strips every leading repetition of p
RECURSIVE trim_start_matches(_, _)
trim_start_matches(s, p) ==
    IF Len(p) > 0 /\ Len(s) >= Len(p) /\ SubSeq(s, 1, Len(p)) = p
    THEN trim_start_matches(SubSeq(s, Len(p) + 1, Len(s)), p)
    ELSE s

\* char::to_digit(16), -1 for a character that is no digit
to_digit16(c) ==
    IF c \in 48 .. 57 THEN c - 48
    ELSE IF c \in 97 .. 102 THEN c - 87
    ELSE IF c \in 65 .. 70 THEN c - 55
    ELSE -1

RECURSIVE HexValue(_)
HexValue(d) == IF d = << >> THEN 0 ELSE HexValue(SubSeq(d, 1, Len(d) - 1)) * 16 + to_digit16(d[Len(d)])

\* usize::from_str_radix(s, 16): an optional '+', then one or more digits
from_str_radix16(s) ==
    LET d == IF Len(s) > 0 /\ s[1] = 43 THEN Tail(s) ELSE s
    IN IF d = << >> \/ \E i \in 1 .. Len(d) : to_digit16(d[i]) < 0
       THEN AnnErr("ParseError")
       ELSE AnnOk(HexValue(d))

from_char(mnemonic) ==
    CASE mnemonic = <<67>> -> AnnOk("Comment")
      [] mnemonic = <<83>> -> AnnOk("Section")
      [] mnemonic = <<71>> -> AnnOk("Goto")
      [] mnemonic = <<76>> -> AnnOk("Label")
      [] mnemonic = <<68>> -> AnnOk("Data")
      [] OTHER -> AnnErr("InvalidMnemonic")

\* a reader that takes any two fields for a full record
from_line_two_fields(line) ==
    LET items == splitn(line, 3, 32)
    IN IF Len(items) < 2 THEN AnnErr("MissingField")
       ELSE LET location == from_str_radix16(trim_start_matches(items[1], <<48, 120>>))
                purpose == from_char(items[2])
            IN IF ~location.ok THEN location
               ELSE IF ~purpose.ok THEN purpose
               ELSE AnnOk([location |-> location.val, purpose |-> purpose.val,
                           value |-> IF Len(items) = 3 THEN items[3] ELSE << >>])

from_line(line) ==
    LET items == splitn(line, 3, 32)
    IN IF Len(items) # 3 THEN AnnErr("MissingField")
       ELSE LET location == from_str_radix16(trim_start_matches(items[1], <<48, 120>>))
                purpose == from_char(items[2])
            IN IF ~location.ok THEN location
               ELSE IF ~purpose.ok THEN purpose
               ELSE AnnOk([location |-> location.val, purpose |-> purpose.val,
                           value |-> items[3]])

\* Iterator::collect::<Result<Vec<_>, _>>(): the first error, or every value
RECURSIVE collect(_)
collect(results) ==
    IF results = << >> THEN AnnOk(<< >>)
    ELSE IF ~Head(results).ok THEN Head(results)
    ELSE LET rest == collect(Tail(results))
         IN IF rest.ok THEN AnnOk(<<Head(results).val>> \o rest.val) ELSE rest

\* the input order kept as it is
unsorted(v) == v

\* Itertools::sorted_by_key(|a| a.location): a stable sort
RECURSIVE sorted_by_key(_)
sorted_by_key(v) ==
    IF v = << >> THEN << >>
    ELSE LET rest == sorted_by_key(SubSeq(v, 1, Len(v) - 1))
             x == v[Len(v)]
             k == Cardinality({i \in 1 .. Len(rest) : rest[i].location <= x.location})
         IN SubSeq(rest, 1, k) \o <<x>> \o SubSeq(rest, k + 1, Len(rest))

\* Itertools::group_by(|a| a.location): runs of consecutive equal keys
RECURSIVE group_by(_)
group_by(v) ==
    IF v = << >> THEN << >>
    ELSE LET key == v[1].location
             n == CHOOSE i \in 1 .. Len(v) :
                      /\ \A j \in 1 .. i : v[j].location = key
                      /\ i = Len(v) \/ v[i + 1].location # key
         IN <<[key |-> key, group |-> SubSeq(v, 1, n)]>> \o group_by(SubSeq(v, n + 1, Len(v)))

\* collect::<BTreeMap<_, _>>(): inserts in turn, a later key replacing an earlier one
RECURSIVE collect_map(_)
collect_map(pairs) ==
    IF pairs = << >> THEN << >>
    ELSE LET m == collect_map(SubSeq(pairs, 1, Len(pairs) - 1))
             p == pairs[Len(pairs)]
         IN [k \in DOMAIN m \cup {p.key} |-> IF k = p.key THEN p.group ELSE m[k]]

\* the lines that survive the two filters of parse
kept_lines(data) ==
    SelectSeq(split(data, 10), LAMBDA l : ~trim_is_empty(l) /\ ~starts_with(l, 35))

parse(data) ==
    LET lines == kept_lines(data)
        collected == collect([i \in 1 .. Len(lines) |-> from_line(lines[i])])
    IN IF ~collected.ok THEN collected
       ELSE AnnOk(collect_map(group_by(sorted_by_key(collected.val))))

(***************************************************************************)
(* The disassembly loops (bin/disassemble.rs over Memory and a u16 index,  *)
(* main.rs over an IndexedIter).  A printed line is [kind, addr, upto, op, *)
(* goto, jump, target]: kind "Skip" for a data region addr..upto, "Op" for *)
(* an instruction at addr with the text of its goto column, or, when no G  *)
(* annotation gave one and the opcode is a relative jump, the target.      *)
(***************************************************************************)
NoLine ==
    [kind |-> "None", addr |-> 0, upto |-> 0, op |-> NoOp, goto |-> << >>, jump |-> FALSE,
     target |-> 0]

SkipLine(a, b, goto) == [NoLine EXCEPT !.kind = "Skip", !.addr = a, !.upto = b, !.goto = goto]

PanicLine(a) == [NoLine EXCEPT !.kind = "Panic", !.addr = a]

\* the locals of one loop iteration before its annotations are read
NoNotes == [comment |-> << >>, goto |-> << >>, label |-> << >>, skip |-> 0, panic |-> FALSE]

\* usize::MAX, as far as the integers of the model reach
UsizeMax == 2147483647

\* for annotation in annotations { match annotation.purpose .. }; max is the
\* largest value of the integer type of skip
RECURSIVE read_annotations(_, _, _)
read_annotations(anns, notes, max) ==
    IF anns = << >> \/ notes.panic THEN notes
    ELSE LET a == Head(anns)
             n == from_str_radix16(trim_start_matches(a.value, <<48, 120>>))
         IN read_annotations(Tail(anns),
                CASE a.purpose = "Comment" -> [notes EXCEPT !.comment = <<32, 59, 32>> \o a.value]
                  [] a.purpose = "Goto" -> [notes EXCEPT !.goto = <<45, 62, 32>> \o a.value]
                  [] a.purpose = "Label" -> [notes EXCEPT !.label = <<a.value>>]
                  [] a.purpose = "Section" -> notes
                  [] a.purpose = "Data" ->
                        IF n.ok /\ n.val <= max THEN [notes EXCEPT !.skip = n.val]
                        ELSE [notes EXCEPT !.panic = TRUE],
                max)

\* annotations.get(&index).unwrap_or(&empty_vec)
annotations_get(map, key) == IF key \in DOMAIN map THEN map[key] ELSE << >>

IsRelativeJump(op) == op.op \in {"Jump", "JumpRZMemOffset", "JumpRNZMemOffset"}

\* the goto column of an instruction line: the annotation's text, or the
\* target base + offset of a relative jump
OpLine(a, op, goto, base) ==
    [NoLine EXCEPT !.kind = "Op", !.addr = a, !.op = op, !.goto = goto,
                   !.jump = (goto = << >> /\ IsRelativeJump(op)),
                   !.target = IF goto = << >> /\ IsRelativeJump(op) THEN base + op.n ELSE 0]

\* one iteration of the loop of bin/disassemble.rs
disassemble(mem, at, map) ==
    LET notes == read_annotations(annotations_get(map, at), NoNotes, U16 - 1)
        d == decode(mem, at)
    IN IF notes.panic THEN [line |-> PanicLine(at), index |-> at]
       ELSE IF notes.skip > 0
       THEN IF checked /\ at + notes.skip > 65535
            THEN [line |-> PanicLine(at), index |-> at]
            ELSE [line |-> SkipLine(at, (at + notes.skip - 1) % U16, notes.goto),
                  index |-> (at + notes.skip - 1) % U16]
       ELSE IF d.tag # "Ok" THEN [line |-> PanicLine(at), index |-> d.cur]
       ELSE [line |-> OpLine(at, d.op, notes.goto, at), index |-> d.cur]

\* Iterator::nth(n): n + 1 calls of next, fewer when the iterator runs out
RECURSIVE nth(_, _)
nth(self, n) ==
    LET x == next(self)
    IN IF ~x.some \/ n = 0 THEN x.self ELSE nth(x.self, n - 1)

\* one iteration of the loop of main.rs
main_disassemble(data, map) ==
    LET notes == read_annotations(annotations_get(map, index(data)), NoNotes, UsizeMax)
        d == main_decode(data)
    IN IF notes.panic THEN [line |-> PanicLine(index(data)), it |-> data]
       ELSE IF notes.skip > 0
       THEN [line |-> SkipLine(index(data), index(data) + notes.skip - 1, notes.goto),
             it |-> nth(data, notes.skip - 1)]
       ELSE IF d.tag # "Ok" THEN [line |-> PanicLine(index(data)), it |-> d.cur]
       ELSE [line |-> OpLine(index(data), d.op, notes.goto, index(d.cur)), it |-> d.cur]

(***************************************************************************)
(* Inputs of the direct execute calls (the unit tests of emulator.rs call  *)
(* execute on a register file and memory they set up themselves).          *)
(***************************************************************************)
Register8s == {"A", "B", "C", "D", "E", "H", "L", "F"}

Register16s == {"AF", "BC", "DE", "HL", "SP"}

AddrRegisters == {"BC", "DE", "HL", "C"}

TestSlots ==
    {r8(r) : r \in Register8s} \cup {r16(r) : r \in Register16s}
        \cup {addr(r) : r \in AddrRegisters}
        \cup {Addr8(v) : v \in {0, 1, 255}} \cup {Addr16(v) : v \in {0, 4660}}
        \cup {Data8(v) : v \in {0, 90, 255}} \cup {Data16(v) : v \in {0, 4660, 65535}}

Offsets == {-128, -3, 0, 5, 127}

TestOpcodes ==
    {Ld(to, from) : to \in TestSlots, from \in TestSlots}
        \cup {Nop, Halt, Ret}
        \cup {Call(s) : s \in {Data16(4660)}}
        \cup {Inc(s) : s \in {r8("B"), r16("BC"), addr("HL")}}
        \cup {Dec(s) : s \in {r8("B"), r16("DE"), addr("HL")}}
        \cup {Cp(r8("A"), Data8(90))}
        \cup {Sub(s) : s \in {r8("B"), addr("HL")}}
        \cup {LdDec(r) : r \in Register8s} \cup {LdInc(r) : r \in Register8s}
        \cup {RotLeft(r) : r \in {"A", "C"}}
        \cup {Push(r) : r \in {"BC"}} \cup {Pop(r) : r \in {"BC", "AF"}}
        \cup {Xor(r) : r \in Register8s}
        \cup {ComplBit(k, r) : k \in 0 .. 8, r \in Register8s}
        \cup {Jump(k) : k \in Offsets}
        \cup {JumpRZMemOffset(k) : k \in Offsets}
        \cup {JumpRNZMemOffset(k) : k \in Offsets}

TestRegisters ==
    {[a |-> 165, b |-> 161, c |-> 1, d |-> 1, e |-> 2, h |-> x[1], l |-> x[2],
      f |-> fl, pc |-> p, sp |-> 65534] :
        x \in {<<0, 0>>, <<255, 255>>, <<128, 16>>, <<1, 255>>, <<2, 0>>}, fl \in {0, 170}, p \in {2, 65534}}

\* a memory with a distinct byte in each cell the test operands can name
TestCells ==
    <<<<0, 17>>, <<1, 18>>, <<254, 19>>, <<255, 20>>, <<257, 21>>, <<258, 22>>,
      <<4660, 23>>, <<32784, 24>>, <<41217, 25>>, <<65280, 26>>, <<65281, 27>>,
      <<65535, 28>>>>

RECURSIVE SetCells(_, _)
SetCells(mem, cells) ==
    IF cells = << >> THEN mem
    ELSE SetCells(set(mem, Head(cells)[1], Head(cells)[2]), Tail(cells))

TestMemories == {from_raw(<<0>>).mem, SetCells(from_raw(<<0>>).mem, TestCells)}

(***************************************************************************)
(* State machine.                                                          *)
(***************************************************************************)
NoDecode == [tag |-> "None", op |-> NoOp, byte |-> 0, start |-> 0, opbyte |-> 0]

NoResult == [tag |-> "None", msg |-> "", op |-> NoOp]

Snapshot(regs, mem, clk) == [registers |-> regs, memory |-> mem, clock |-> clk]

\* run() of bin/emulator.rs up to its loop
InitEmulator ==
    /\ prog = "emulator"
    /\ bios \in Images
    /\ memory = from_raw(bios).mem
    /\ registers = Registers_default
    /\ it = from_vec(<< >>)

\* a unit test calling execute
InitExecute ==
    /\ prog = "execute"
    /\ bios = <<0>>
    /\ memory \in TestMemories
    /\ registers \in TestRegisters
    /\ it = from_vec(<< >>)

\* decode of main.rs, and the slot parsers, over an iterator on the input bytes
InitMain ==
    /\ prog \in {"main", "slots"}
    /\ bios \in Images \cup {<< >>}
    /\ memory = from_raw(<< >>).mem
    /\ registers = Registers_default
    /\ it = from_vec(bios)

\* a raw buffer of n bytes: zero but for its first, middle and last byte
BigImage(n) ==
    [i \in 1 .. n |-> IF i = 1 THEN 49 ELSE IF i = n \div 2 THEN 90 ELSE IF i = n THEN 127 ELSE 0]

LoadImages ==
    {<< >>, <<7>>, <<0, 5, 0, 9>>}
        \cup {BigImage(n) : n \in {65534, 65535, 65536, 65537}}

\* a caller about to build a Memory from a raw buffer
InitMemory ==
    /\ prog = "memory"
    /\ bios \in LoadImages
    /\ memory = << >>
    /\ registers = Registers_default
    /\ it = from_vec(<< >>)

\* flag bytes of the unit tests, and the extremes
FlagBytes == {0, 170, 186, 255}

HlValues == {0, 255, 256, 4660, 32768, 65535}

\* a register file about to be used through its accessors
InitRegisters ==
    /\ prog = "registers"
    /\ bios = << >>
    /\ memory = from_raw(<< >>).mem
    /\ registers \in {[r EXCEPT !.f = fl] : r \in {t \in TestRegisters : t.pc = 2}, fl \in FlagBytes}
    /\ it = from_vec(<< >>)

\* the lines an annotation file is made of, as bytes:
\*   "0x10 D 0x05" 
\*   "0x10 C hello"
\*   "0x5 S a b"   
\*   "# c"         
\*   ""            
\*   " "           
\*   " # c"        
\*   "0x10 C"      
\*   "0x1w S t"    
\*   "0x10 W t"    
\*   "0x1w W t"
AnnotationLines ==
    { <<48, 120, 49, 48, 32, 68, 32, 48, 120, 48, 53>>,
        <<48, 120, 49, 48, 32, 67, 32, 104, 101, 108, 108, 111>>,
        <<48, 120, 53, 32, 83, 32, 97, 32, 98>>,
        <<35, 32, 99>>,
        << >>,
        <<32>>,
        <<32, 35, 32, 99>>,
        <<48, 120, 49, 48, 32, 67>>,
        <<48, 120, 49, 119, 32, 83, 32, 116>>,
        <<48, 120, 49, 48, 32, 87, 32, 116>>,
        <<48, 120, 49, 119, 32, 87, 32, 116>> }

MaxLines == 3

\* lines joined by '\n'
RECURSIVE JoinLines(_)
JoinLines(ls) ==
    IF Len(ls) = 0 THEN << >>
    ELSE IF Len(ls) = 1 THEN ls[1]
    ELSE ls[1] \o <<10>> \o JoinLines(Tail(ls))

AnnotationTexts == {JoinLines(ls) : ls \in SeqsUpTo(AnnotationLines, MaxLines)}

\* a caller about to parse the text of an annotation file
InitAnnotations ==
    /\ prog = "annotations"
    /\ bios \in AnnotationTexts
    /\ memory = from_raw(<< >>).mem
    /\ registers = Registers_default
    /\ it = from_vec(<< >>)

\* the byte values of the images given to the disassemblers: Nop, the three
\* relative jumps and a negative displacement
DisAlphabet == {0, 24, 32, 40, 253}

DisImages == SeqsUpTo(DisAlphabet, MaxLen) \ {<< >>}

\* the annotation files given to the disassemblers, as bytes:
\*   ""
\*   "0x0 D 0x02"
\*   "0x1 D 0x02"
\*   "0x0 D 0x01"
\*   "0x0 G there"
\*   "0x0 D 0x02\n0x2 L l"
\*   "0x1 D 0x00"
\*   "0x0 D 0x03\n0x0 C c"
\*   "0x0 S s\n0x2 D 2"
DisTexts ==
    { << >>,
      <<48, 120, 48, 32, 68, 32, 48, 120, 48, 50>>,
      <<48, 120, 49, 32, 68, 32, 48, 120, 48, 50>>,
      <<48, 120, 48, 32, 68, 32, 48, 120, 48, 49>>,
      <<48, 120, 48, 32, 71, 32, 116, 104, 101, 114, 101>>,
      <<48, 120, 48, 32, 68, 32, 48, 120, 48, 50, 10, 48, 120, 50, 32, 76, 32, 108>>,
      <<48, 120, 49, 32, 68, 32, 48, 120, 48, 48>>,
      <<48, 120, 48, 32, 68, 32, 48, 120, 48, 51, 10, 48, 120, 48, 32, 67, 32, 99>>,
      <<48, 120, 48, 32, 83, 32, 115, 10, 48, 120, 50, 32, 68, 32, 50>> }

DisAnnotations == {parse(t).val : t \in DisTexts}

\* disassemble(buf, annotations, debug) up to its loop, in bin/disassemble.rs
\* and in main.rs
InitDisassemble ==
    /\ prog \in {"disassemble", "main_disassemble"}
    /\ bios \in DisImages
    /\ memory = IF prog = "disassemble" THEN from_raw(bios).mem ELSE from_raw(<< >>).mem
    /\ registers = Registers_default
    /\ it = IF prog = "main_disassemble" THEN from_vec(bios) ELSE from_vec(<< >>)

\* the vectors of the iterator's unit tests, and the others of their lengths
TestVecs == SeqsUpTo({1, 2, 3}, MaxLen)

\* a unit test that has just built an IndexedIter from a vector
InitIndexedIter ==
    /\ prog = "indexediter"
    /\ bios \in TestVecs
    /\ memory = from_raw(<< >>).mem
    /\ registers = Registers_default
    /\ it = from_vec(bios)

Init ==
    /\ checked \in BOOLEAN
    /\ clock = 0
    /\ decoded = NoDecode
    /\ result = NoResult
    /\ pre = Snapshot(Registers_default, from_raw(<< >>).mem, 0)
    /\ last = "init"
    /\ steps = 0
    /\ writes = << >>
    /\ arg = 0
    /\ idx = 0
    /\ printed = NoLine
    /\ calls = << >>
    /\ \/ InitEmulator \/ InitExecute \/ InitMain
       \/ InitMemory \/ InitRegisters \/ InitAnnotations \/ InitDisassemble
       \/ InitIndexedIter
    /\ annotations \in IF prog \in {"disassemble", "main_disassemble"} THEN DisAnnotations
                       ELSE {<< >>}

\* run(): let code = decode(&memory, &mut registers.pc)?
Decode ==
    /\ prog = "emulator"
    /\ steps < MaxSteps
    /\ last = "init" \/ (last = "execute" /\ result.tag = "Ok")
    /\ LET d == decode(memory, registers.pc)
       IN /\ decoded' = [tag |-> d.tag, op |-> d.op, byte |-> d.byte,
                         start |-> registers.pc, opbyte |-> get(memory, registers.pc)]
          /\ registers' = [registers EXCEPT !.pc = d.cur]
    /\ last' = "decode"
    /\ steps' = steps + 1
    /\ UNCHANGED <<prog, checked, bios, memory, clock, it, result, pre, writes, arg,
                   annotations, idx, printed, calls>>

ExecuteCall(op) ==
    LET e == execute(op, registers, memory, clock)
    IN /\ pre' = Snapshot(registers, memory, clock)
       /\ registers' = e.registers
       /\ memory' = e.memory
       /\ clock' = e.clock
       /\ result' = [tag |-> e.tag, msg |-> e.msg, op |-> op]
       /\ last' = "execute"

\* run(): execute(code, &mut registers, &mut memory, &mut clock)?
Execute ==
    /\ prog = "emulator"
    /\ last = "decode"
    /\ decoded.tag = "Ok"
    /\ ExecuteCall(decoded.op)
    /\ UNCHANGED <<prog, checked, bios, it, decoded, steps, writes, arg, annotations, idx, printed, calls>>

\* a unit test: execute(op, &mut registers, &mut memory, &mut 0)
TestExecute ==
    /\ prog = "execute"
    /\ last = "init"
    /\ \E op \in TestOpcodes : ExecuteCall(op)
    /\ steps' = steps + 1
    /\ UNCHANGED <<prog, checked, bios, it, decoded, writes, arg, annotations, idx, printed, calls>>

\* main.rs: decode(&mut it)
MainDecode ==
    /\ prog = "main"
    /\ decoded.tag \in {"None", "Ok"}
    /\ LET d == main_decode(it)
       IN /\ decoded' = [tag |-> d.tag, op |-> d.op, byte |-> d.byte, start |-> index(it),
                         opbyte |-> IF it.it = << >> THEN -1 ELSE Head(it.it)]
          /\ it' = d.cur
    /\ last' = "decode"
    /\ steps' = steps + 1
    /\ UNCHANGED <<prog, checked, bios, memory, registers, clock, result, pre, writes, arg,
                   annotations, idx, printed, calls>>

SlotResult(name, p) ==
    /\ decoded' = [tag |-> IF p.ok THEN "Ok" ELSE "EndOfStream", op |-> Call(p.slot), byte |-> 0,
                   start |-> index(it), opbyte |-> 0]
    /\ it' = p.data
    /\ last' = name

\* slots.rs: Slot::parse_a16 / parse_a8 / parse_d16 / parse_d8 on an iterator
ParseSlot ==
    /\ prog = "slots"
    /\ steps < MaxSteps
    /\ \/ SlotResult("parse_a16", parse_a16(it))
       \/ SlotResult("parse_a8", parse_a8(it))
       \/ SlotResult("parse_d16", parse_d16(it))
       \/ SlotResult("parse_d8", parse_d8(it))
    /\ steps' = steps + 1
    /\ UNCHANGED <<prog, checked, bios, memory, registers, clock, result, pre, writes, arg,
                   annotations, idx, printed, calls>>

\* Memory::from_raw(&bios)
FromRaw ==
    /\ prog = "memory"
    /\ last = "init"
    /\ LET m == from_raw(bios)
       IN /\ memory' = IF m.ok THEN m.mem ELSE memory
          /\ result' = [tag |-> IF m.ok THEN "Ok" ELSE "Err",
                        msg |-> IF m.ok THEN "" ELSE "DataTooLarge", op |-> NoOp]
    /\ last' = "from_raw"
    /\ steps' = steps + 1
    /\ UNCHANGED <<prog, checked, bios, registers, clock, it, decoded, pre, writes, arg,
                   annotations, idx, printed, calls>>

\* the addresses and bytes a caller of Memory::set passes
SetAddrs == {0, 3, 65535}

SetValues == {0, 255}

\* memory.set(a, v) on a loaded image
MemSet ==
    /\ prog = "memory"
    /\ last \in {"from_raw", "set"}
    /\ result.tag = "Ok"
    /\ steps < MaxSteps
    /\ \E a \in SetAddrs, v \in SetValues :
          /\ memory' = set(memory, a, v)
          /\ writes' = Append(writes, [addr |-> a, value |-> v])
    /\ pre' = Snapshot(registers, memory, clock)
    /\ last' = "set"
    /\ steps' = steps + 1
    /\ UNCHANGED <<prog, checked, bios, registers, clock, it, decoded, result, arg,
                   annotations, idx, printed, calls>>

RegisterCall(name, v, regs) ==
    /\ prog = "registers"
    /\ steps < MaxSteps
    /\ pre' = Snapshot(registers, memory, clock)
    /\ registers' = regs
    /\ arg' = v
    /\ last' = name
    /\ steps' = steps + 1
    /\ UNCHANGED <<prog, checked, bios, memory, clock, it, decoded, result, writes,
                   annotations, idx, printed, calls>>

\* registers.flag_zero_set(v)
FlagZeroSet == \E v \in BOOLEAN : RegisterCall("flag_zero_set", v, flag_zero_set(registers, v))

\* registers.flag_carry_set(v)
FlagCarrySet == \E v \in BOOLEAN : RegisterCall("flag_carry_set", v, flag_carry_set(registers, v))

\* registers.set_hl(x)
SetHl == \E x \in HlValues : RegisterCall("set_hl", x, set_hl(registers, x))

\* Annotation::parse(&data)
AnnotationParse ==
    /\ prog = "annotations"
    /\ last = "init"
    /\ LET r == parse(bios)
       IN /\ annotations' = r.val
          /\ result' = [tag |-> IF r.ok THEN "Ok" ELSE "Err", msg |-> r.err, op |-> NoOp]
    /\ last' = "parse"
    /\ steps' = steps + 1
    /\ UNCHANGED <<prog, checked, bios, memory, registers, clock, it, decoded, pre, writes,
                   arg, idx, printed, calls>>

\* the loop body of disassemble in bin/disassemble.rs
Disassemble ==
    /\ prog = "disassemble"
    /\ steps < MaxSteps
    /\ printed.kind # "Panic"
    /\ LET d == disassemble(memory, idx, annotations)
       IN /\ printed' = d.line
          /\ idx' = d.index
    /\ last' = "disassemble"
    /\ steps' = steps + 1
    /\ UNCHANGED <<prog, checked, bios, memory, registers, clock, it, decoded, result, pre,
                   writes, arg, annotations, calls>>

\* the loop body of disassemble in main.rs
MainDisassemble ==
    /\ prog = "main_disassemble"
    /\ steps < MaxSteps
    /\ printed.kind # "Panic"
    /\ LET d == main_disassemble(it, annotations)
       IN /\ printed' = d.line
          /\ it' = d.it
    /\ last' = "disassemble"
    /\ steps' = steps + 1
    /\ UNCHANGED <<prog, checked, bios, memory, registers, clock, decoded, result, pre,
                   writes, arg, annotations, idx, calls>>

\* one direct call of next() on the iterator, as the unit tests make
IterNext ==
    /\ prog = "indexediter"
    /\ steps < MaxSteps
    /\ LET x == next(it)
       IN /\ it' = x.self
          /\ calls' = Append(calls, [some |-> x.some, value |-> x.value])
    /\ last' = "next"
    /\ steps' = steps + 1
    /\ UNCHANGED <<prog, checked, bios, memory, registers, clock, decoded, result, pre, writes,
                   arg, annotations, idx, printed>>

Next ==
    \/ Decode \/ Execute \/ TestExecute \/ MainDecode \/ ParseSlot
    \/ FromRaw \/ MemSet
    \/ FlagZeroSet \/ FlagCarrySet \/ SetHl
    \/ AnnotationParse
    \/ Disassemble \/ MainDisassemble
    \/ IterNext

Spec == Init /\ [][Next]_vars

(***************************************************************************)
(* Vocabulary of the properties.                                           *)
(***************************************************************************)
\* the cursor of the running decoder
Cursor == IF prog = "emulator" THEN registers.pc ELSE index(it)

\* the cursor value k bytes after the start of the last decode / parse
After(k) == IF prog = "emulator" THEN (decoded.start + k) % U16 ELSE decoded.start + k

\* the byte k places after the start of the last decode / parse (-1 past the end)
StreamByte(k) ==
    IF prog = "emulator" THEN get(memory, (decoded.start + k) % U16)
    ELSE IF decoded.start + k < Len(bios) THEN bios[decoded.start + k + 1] ELSE -1

\* size in bytes of the immediate operand an opcode carries
SlotSize(s) ==
    CASE s.kind \in {"Data8", "Addr8"} -> 1
      [] s.kind \in {"Data16", "Addr16"} -> 2
      [] OTHER -> 0

ImmSize(op) ==
    SlotSize(op.s1) + SlotSize(op.s2)
        + (IF op.op \in {"Jump", "JumpRZMemOffset", "JumpRNZMemOffset"} THEN 1 ELSE 0)

AfterDecode == last = "decode"

Returned == decoded.tag # "Panic"

\* the keys of the direct opcode table
DirectKeys ==
    {0, 1, 2, 3, 4, 5, 6, 12, 13, 14, 17, 19, 20, 21, 22, 23, 24, 26, 27, 28, 29, 30,
     32, 33, 34, 35, 36, 37, 40, 46, 49, 50, 52, 53, 61, 62,
     144, 145, 146, 147, 148, 149, 150, 151, 175, 193, 197, 201, 205,
     224, 226, 234, 240, 241, 254}

IllegalLdSlots == {r8("F"), r16("AF")}

(***************************************************************************)
(* Properties.                                                             *)
(***************************************************************************)

\* C1: a successful decode that starts at cursor p with byte 0xCB at p leaves
\* the cursor at p + 2, past the second byte of the extended opcode.
C1_ExtendedConsumesTwo ==
    (AfterDecode /\ decoded.tag = "Ok" /\ decoded.opbyte = 203) => Cursor = After(2)

\* C2: a successful decode of a direct-table or load-block opcode advances the
\* cursor by 1 plus the size of its immediate operand (in the arithmetic of the
\* cursor: modulo 2^16 for the u16 program counter); [0x00] consumes 1 byte
\* and [0x01, 0x34, 0x12] consumes 3.
C2_CursorAdvance ==
    /\ (AfterDecode /\ decoded.tag = "Ok" /\ decoded.opbyte # 203)
          => Cursor = After(1 + ImmSize(decoded.op))
    /\ (AfterDecode /\ steps = 1 /\ bios = <<0>>)
          => (decoded.tag = "Ok" /\ decoded.op = Nop /\ Cursor = 1)
    /\ (AfterDecode /\ steps = 1 /\ bios = <<1, 52, 18>>)
          => (decoded.tag = "Ok" /\ Cursor = 3)

C2_Witness ==
    /\ prog = "emulator" /\ AfterDecode /\ steps = 1
    /\ decoded.tag = "Ok" /\ decoded.opbyte = 24 /\ registers.pc = 2

\* C3: every byte b of 0x40..0x7F other than 0x76 decodes to
\* Ld(T[(b - 0x40) >> 3], T[(b - 0x40) & 7]) with T = [B, C, D, E, H, L, (HL), A];
\* 0x76 decodes to Halt.
C3_T == <<r8("B"), r8("C"), r8("D"), r8("E"), r8("H"), r8("L"), addr("HL"), r8("A")>>

C3_LoadBlock ==
    (AfterDecode /\ Returned /\ decoded.opbyte \in 64 .. 127) =>
        /\ decoded.tag = "Ok"
        /\ decoded.opbyte = 118 => decoded.op = Halt
        /\ decoded.opbyte # 118 =>
              /\ decoded.op.op = "Ld"
              /\ decoded.op.s1 = C3_T[((decoded.opbyte - 64) \div 8) + 1]
              /\ decoded.op.s2 = C3_T[((decoded.opbyte - 64) % 8) + 1]
        /\ decoded.opbyte = 95 => decoded.op = Ld(r8("E"), r8("A"))
        /\ decoded.opbyte = 102 => decoded.op = Ld(r8("H"), addr("HL"))
        /\ decoded.opbyte = 104 => decoded.op = Ld(r8("L"), r8("B"))

C3_Witness ==
    /\ prog = "emulator" /\ AfterDecode
    /\ decoded.opbyte = 102 /\ decoded.op = Ld(r8("H"), addr("HL"))

\* C4: decode and the slot parsers fail with EndOfStream whenever the byte
\* source ends before every byte they need has been read: a call that does not
\* fail with EndOfStream has read only bytes of the input (for the emulator,
\* the first decode over the freshly loaded image).
C4_BytesRead ==
    CASE last \in {"parse_a8", "parse_d8"} -> 1
      [] last \in {"parse_a16", "parse_d16"} -> 2
      [] decoded.tag = "UnknownOpcode" -> 1
      [] decoded.opbyte = 203 -> 2
      [] OTHER -> 1 + ImmSize(decoded.op)

C4_TruncatedIsEndOfStream ==
    (last \notin {"init", "execute"} /\ Returned /\ decoded.tag # "EndOfStream"
        /\ (prog = "emulator" => steps = 1))
        => decoded.start + C4_BytesRead <= Len(bios)

\* C5: an opcode byte that is not 0xCB, not in 0x40..0x7F and not a key of the
\* direct table makes decode fail with UnknownOpcode carrying that byte, the
\* cursor just past it.
C5_UnknownOpcode ==
    (AfterDecode /\ Returned /\ decoded.opbyte \in Byte
        /\ decoded.opbyte \notin (DirectKeys \cup (64 .. 127) \cup {203}))
        => /\ decoded.tag = "UnknownOpcode"
           /\ decoded.byte = decoded.opbyte
           /\ decoded.op = NoOp
           /\ Cursor = After(1)

C5_Witness ==
    /\ prog = "emulator" /\ AfterDecode
    /\ decoded.opbyte = 255 /\ decoded.tag = "UnknownOpcode" /\ decoded.byte = 255

\* C6: [0xCB, b] is dispatched through the extended table only: 0x7C is
\* ComplBit(7, H), 0x11 is RotLeft(C), 0x4F is ComplBit(1, A), any other b
\* fails with UnknownExtendedOpcode(b).
C6_ExtendedTable ==
    (AfterDecode /\ Returned /\ decoded.opbyte = 203 /\ decoded.tag # "EndOfStream") =>
        LET b == StreamByte(1)
        IN /\ b = 124 => (decoded.tag = "Ok" /\ decoded.op = ComplBit(7, "H"))
           /\ b = 17 => (decoded.tag = "Ok" /\ decoded.op = RotLeft("C"))
           /\ b = 79 => (decoded.tag = "Ok" /\ decoded.op = ComplBit(1, "A"))
           /\ b \notin {124, 17, 79} =>
                 (decoded.tag = "UnknownExtendedOpcode" /\ decoded.byte = b /\ decoded.op = NoOp)

C6_Witness ==
    /\ prog = "emulator" /\ AfterDecode /\ decoded.opbyte = 203
    /\ decoded.tag = "UnknownExtendedOpcode" /\ decoded.byte = 255

\* C7: a 16-bit immediate is the little-endian value hi * 256 + lo of the two
\* bytes that follow the opcode; an 8-bit immediate is the following byte.
C7_Imm(s, k) ==
    /\ s.kind \in {"Data16", "Addr16"} => s.val = StreamByte(k + 1) * 256 + StreamByte(k)
    /\ s.kind \in {"Data8", "Addr8"} => s.val = StreamByte(k)

C7_LittleEndian ==
    /\ (AfterDecode /\ decoded.tag = "Ok" /\ decoded.opbyte # 203)
          => (C7_Imm(decoded.op.s1, 1) /\ C7_Imm(decoded.op.s2, 1))
    /\ (last \in {"parse_a16", "parse_d16", "parse_a8", "parse_d8"} /\ decoded.tag = "Ok")
          => C7_Imm(decoded.op.s1, 0)
    /\ (AfterDecode /\ steps = 1 /\ bios = <<1, 52, 18>>)
          => decoded.op = Ld(r16("BC"), Data16(4660))
    /\ (last = "parse_a16" /\ steps = 1 /\ bios = <<18, 52>>)
          => decoded.op.s1 = Addr16(13330)

C7_Witness ==
    /\ prog = "main" /\ AfterDecode /\ bios = <<1, 52, 18>>
    /\ decoded.op = Ld(r16("BC"), Data16(4660))

\* C8: execute(Ld(to, from)) with F or AF as either operand fails, and leaves
\* every register and every memory cell as it was before the call.
C8_IllegalLd ==
    (last = "execute" /\ result.op.op = "Ld"
        /\ (result.op.s1 \in IllegalLdSlots \/ result.op.s2 \in IllegalLdSlots))
        => /\ result.tag = "Err"
           /\ registers = pre.registers
           /\ memory = pre.memory

C8_Witness ==
    /\ last = "execute" /\ result.op = Ld(r8("B"), r8("F"))
    /\ result.tag = "Err" /\ registers.f # 0

\* C9: execute on an opcode the executor gives no semantics to returns the
\* unknown-opcode error and leaves registers and memory unchanged.
C9_Unimplemented ==
    {"Nop", "Halt", "Ret", "Call", "Inc", "Dec", "Cp", "Sub", "RotLeft", "Push", "Pop", "Jump"}

C9_UnknownOpcodeError ==
    (last = "execute" /\ result.op.op \in C9_Unimplemented)
        => /\ result.tag = "Err"
           /\ result.msg = "Unknown Opcode"
           /\ registers = pre.registers
           /\ memory = pre.memory

C9_Witness ==
    /\ prog = "emulator" /\ last = "execute" /\ result.op = Inc(r8("B"))
    /\ result.tag = "Err"

\* C10: execute returns Ok or a typed error for every opcode decode can
\* produce; it never aborts with a panic.
C10_ExecuteNeverPanics ==
    (prog = "emulator" /\ last = "execute") => result.tag \in {"Ok", "Err"}

\* the zero flag (bit 7 of F) of a register file, read off the byte itself
ZeroFlag(regs) == regs.f >= 128

\* C11: execute(JumpRNZMemOffset(d)) succeeds; with the zero flag clear it sets
\* PC to (PC + d) mod 2^16, d signed, with the flag set it leaves PC; no other
\* register and no memory cell changes.
C11_JumpRNZ ==
    (last = "execute" /\ result.op.op = "JumpRNZMemOffset") =>
        /\ result.tag = "Ok"
        /\ result.op.n \in -128 .. 127
        /\ registers = [pre.registers EXCEPT !.pc =
                            IF ZeroFlag(pre.registers) THEN pre.registers.pc
                            ELSE (pre.registers.pc + result.op.n + U16) % U16]
        /\ memory = pre.memory

C11_Witness ==
    /\ last = "execute" /\ result.op = JumpRNZMemOffset(-3) /\ result.tag = "Ok"
    /\ pre.registers.pc = 2 /\ registers.pc = 65535

\* C12: execute(JumpRZMemOffset(d)) succeeds; with the zero flag set it sets PC
\* to (PC + d) mod 2^16, with the flag clear it leaves PC.
C12_JumpRZ ==
    (last = "execute" /\ result.op.op = "JumpRZMemOffset") =>
        /\ result.tag = "Ok"
        /\ registers = [pre.registers EXCEPT !.pc =
                            IF ZeroFlag(pre.registers)
                            THEN (pre.registers.pc + result.op.n + U16) % U16
                            ELSE pre.registers.pc]
        /\ memory = pre.memory

\* C13: execute(ComplBit(n, reg)), n in 0..7, sets the zero flag exactly when
\* bit n of reg is 0; the other seven bits of F, the other registers and the
\* memory are unchanged, and repeating the call with reg unchanged gives the
\* same flag.
C13_ComplBit ==
    (last = "execute" /\ result.op.op = "ComplBit" /\ result.op.n \in 0 .. 7) =>
        LET value == fetch_register8(result.op.r1, pre.registers)
            clear == (value \div (2 ^ result.op.n)) % 2 = 0
        IN /\ result.tag = "Ok"
           /\ registers = [pre.registers EXCEPT !.f =
                               (pre.registers.f % 128) + (IF clear THEN 128 ELSE 0)]
           /\ ZeroFlag(registers) = clear
           /\ memory = pre.memory
           /\ result.op.r1 # "F" =>
                 execute(result.op, registers, memory, clock).registers = registers

C13_Witness ==
    /\ last = "execute" /\ result.op = ComplBit(7, "H") /\ result.tag = "Ok"
    /\ pre.registers.h = 128 /\ pre.registers.f = 170 /\ registers.f = 42

\* mem is the image old with the cell at address a holding v
SameExcept(mem, old, a, v) ==
    \A x \in DOMAIN mem \cup DOMAIN old \cup {a} :
        get(mem, x) = IF x = a THEN v ELSE get(old, x)

\* the pair HL of a register file
PairHL(regs) == regs.h * 256 + regs.l

\* C14: execute(LdInc(r)) / execute(LdDec(r)) with HL = h, 0 < h < 0xFFFF,
\* stores the value r had before the call into memory[h] and sets HL to h + 1 /
\* h - 1; no other memory cell and no register other than H and L changes.
C14_LdIncDec ==
    (last = "execute" /\ result.op.op \in {"LdInc", "LdDec"}
        /\ PairHL(pre.registers) > 0 /\ PairHL(pre.registers) < 65535) =>
        LET h == PairHL(pre.registers)
            h2 == IF result.op.op = "LdInc" THEN h + 1 ELSE h - 1
        IN /\ result.tag = "Ok"
           /\ SameExcept(memory, pre.memory, h, fetch_register8(result.op.r1, pre.registers))
           /\ registers = [pre.registers EXCEPT !.h = h2 \div 256, !.l = h2 % 256]

C14_Witness ==
    /\ last = "execute" /\ result.op = LdInc("A") /\ result.tag = "Ok"
    /\ PairHL(pre.registers) = 511 /\ PairHL(registers) = 512
    /\ get(memory, 511) = 165 /\ get(pre.memory, 511) = 0

\* the address an AddrRegister operand names in a register file
AddrOf(reg, regs) ==
    CASE reg = "BC" -> regs.b * 256 + regs.c
      [] reg = "DE" -> regs.d * 256 + regs.e
      [] reg = "HL" -> regs.h * 256 + regs.l
      [] reg = "C" -> 65280 + regs.c

\* the value an operand denotes in a register file and memory, as 16 bits
SourceValue(slot, regs, mem) ==
    CASE slot.kind = "Register8" -> fetch_register8(slot.reg, regs)
      [] slot.kind = "Register16" ->
            (CASE slot.reg = "BC" -> regs.b * 256 + regs.c
               [] slot.reg = "DE" -> regs.d * 256 + regs.e
               [] slot.reg = "HL" -> regs.h * 256 + regs.l
               [] slot.reg = "AF" -> regs.a * 256 + regs.f
               [] slot.reg = "SP" -> regs.sp)
      [] slot.kind = "AddrRegister" -> get(mem, AddrOf(slot.reg, regs))
      [] slot.kind = "Addr8" -> get(mem, 65280 + slot.val)
      [] slot.kind = "Addr16" -> get(mem, slot.val)
      [] OTHER -> slot.val

ExecutedLd == last = "execute" /\ result.op.op = "Ld"

\* C15: an Addr8(n) operand names the cell 0xFF00 + n in both directions:
\* Ld(Addr8(n), A) stores A at memory[0xFF00 + n] and Ld(A, Addr8(n)) sets A to
\* memory[0xFF00 + n].
C15_Addr8 ==
    /\ (ExecutedLd /\ result.op.s1.kind = "Addr8" /\ result.op.s2 = r8("A")) =>
          /\ result.tag = "Ok"
          /\ SameExcept(memory, pre.memory, 65280 + result.op.s1.val, pre.registers.a)
    /\ (ExecutedLd /\ result.op.s1 = r8("A") /\ result.op.s2.kind = "Addr8") =>
          /\ result.tag = "Ok"
          /\ registers.a = get(pre.memory, 65280 + result.op.s2.val)

\* C16: a Ld whose source is an AddrRegister operand succeeds and sets the
\* destination to the memory byte at the address held in BC / DE / HL, or at
\* 0xFF00 + C.
C16_LdFromAddrRegister ==
    (ExecutedLd /\ result.op.s2.kind = "AddrRegister"
        /\ result.op.s1.kind = "Register8" /\ result.op.s1.reg # "F") =>
        /\ result.tag = "Ok"
        /\ fetch_register8(result.op.s1.reg, registers)
              = get(pre.memory, AddrOf(result.op.s2.reg, pre.registers))

LdToAddrRegisterFromRegister ==
    (ExecutedLd /\ result.op.s1.kind = "AddrRegister"
        /\ result.op.s2 \notin IllegalLdSlots
        /\ result.op.s2.kind \in {"Register8", "Register16", "Data8", "Data16"}) =>
        /\ result.tag = "Ok"
        /\ SameExcept(memory, pre.memory, AddrOf(result.op.s1.reg, pre.registers),
                      SourceValue(result.op.s2, pre.registers, pre.memory) % 256)
        /\ registers = pre.registers

\* exclusive or of two bytes, bit by bit
XorBit(x, y, i) == ((((x \div (2 ^ i)) % 2) + ((y \div (2 ^ i)) % 2)) % 2) * (2 ^ i)

XorByte(x, y) ==
    XorBit(x, y, 0) + XorBit(x, y, 1) + XorBit(x, y, 2) + XorBit(x, y, 3)
        + XorBit(x, y, 4) + XorBit(x, y, 5) + XorBit(x, y, 6) + XorBit(x, y, 7)

\* C18: execute(Xor(r)) succeeds and sets A to A xor r; every other register
\* and all memory are unchanged; Xor(A) leaves A = 0.
C18_Xor ==
    (last = "execute" /\ result.op.op = "Xor") =>
        /\ result.tag = "Ok"
        /\ registers = [pre.registers EXCEPT !.a =
                            XorByte(pre.registers.a, fetch_register8(result.op.r1, pre.registers))]
        /\ memory = pre.memory
        /\ result.op.r1 = "A" => registers.a = 0
        /\ (result.op.r1 = "B" /\ pre.registers.a = 165 /\ pre.registers.b = 161)
              => registers.a = 4

C18_Witness ==
    /\ last = "execute" /\ result.op = Xor("B") /\ result.tag = "Ok"
    /\ pre.registers.a = 165 /\ registers.a = 4 /\ registers.b = 161

\* every address of the image holds the byte of the buffer, or 0 past its end
ImageIs(mem, data) ==
    \A i \in 0 .. 65535 : get(mem, i) = IF i < Len(data) THEN data[i + 1] ELSE 0

\* C19: Memory::from_raw(bytes) fails with DataTooLarge exactly when
\* bytes.len() > 0xFFFF; otherwise get(i) = bytes[i] for i < bytes.len() and
\* get(i) = 0 for every other address.
C19_FromRaw ==
    last = "from_raw" =>
        /\ (result.tag = "Err") = (Len(bios) > 65535)
        /\ result.tag = "Err" => result.msg = "DataTooLarge"
        /\ result.tag # "Err" => (result.tag = "Ok" /\ ImageIs(memory, bios))

C19_Witness ==
    /\ last = "from_raw" /\ result.tag = "Ok" /\ Len(bios) = 65535
    /\ get(memory, 65534) = 127 /\ get(memory, 0) = 49 /\ get(memory, 65535) = 0

\* C20: a raw image of exactly 65,536 bytes is accepted and fills the whole
\* image; the load fails only for images larger than 65,536 bytes.
C20_FullImageAccepted ==
    last = "from_raw" =>
        /\ Len(bios) = 65536 => (result.tag = "Ok" /\ ImageIs(memory, bios))
        /\ result.tag = "Err" => Len(bios) > 65536

\* the store direction of an Addr8 operand alone
Addr8Store ==
    (ExecutedLd /\ result.op.s1.kind = "Addr8" /\ result.op.s2 = r8("A")) =>
        /\ result.tag = "Ok"
        /\ SameExcept(memory, pre.memory, 65280 + result.op.s1.val, pre.registers.a)

\* the byte from_raw put at address a
Loaded(a) == IF a < Len(bios) THEN bios[a + 1] ELSE 0

\* the value of the last set to a, or the loaded byte if a was never set
LastSet(a) ==
    LET at == {i \in 1 .. Len(writes) : writes[i].addr = a}
    IN IF at = {} THEN Loaded(a)
       ELSE writes[CHOOSE i \in at : \A j \in at : j <= i].value

\* C21: get and set succeed for every 16-bit address; after set(a, v),
\* get(a) = v and get(b) is unchanged for every b # a; after any sequence of
\* sets, get(a) is the value of the last set to a, or the loaded byte if a was
\* never set.
C21_GetSet ==
    (prog = "memory" /\ last = "set") =>
        /\ SameExcept(memory, pre.memory, writes[Len(writes)].addr, writes[Len(writes)].value)
        /\ \A a \in SetAddrs \cup DOMAIN memory \cup {1, 2, 32766, 65534} :
              get(memory, a) = LastSet(a)

C21_Witness ==
    /\ prog = "memory" /\ last = "set" /\ Len(bios) = 65535
    /\ writes = <<[addr |-> 65535, value |-> 0], [addr |-> 0, value |-> 255],
                  [addr |-> 65535, value |-> 255]>>
    /\ get(memory, 65535) = 255 /\ get(memory, 0) = 255 /\ get(memory, 65534) = 127

\* bits of x other than bit n
OtherBits(x, n) == x - Bit(x, n) * (2 ^ n)

\* C22: flag_zero_set(v) changes only bit 7 of F and flag_carry_set(v) only
\* bit 4: afterwards the flag reads v, the other seven bits of F and every
\* other register are as before, and setting a flag to the value it already
\* has leaves F unchanged.
C22_FlagSetters ==
    /\ last = "flag_zero_set" =>
          /\ flag_zero(registers) = arg
          /\ OtherBits(registers.f, 7) = OtherBits(pre.registers.f, 7)
          /\ registers = [pre.registers EXCEPT !.f = registers.f]
          /\ flag_zero(pre.registers) = arg => registers.f = pre.registers.f
    /\ last = "flag_carry_set" =>
          /\ flag_carry(registers) = arg
          /\ OtherBits(registers.f, 4) = OtherBits(pre.registers.f, 4)
          /\ registers = [pre.registers EXCEPT !.f = registers.f]
          /\ flag_carry(pre.registers) = arg => registers.f = pre.registers.f

C22_Witness ==
    /\ last = "flag_carry_set" /\ arg = FALSE
    /\ pre.registers.f = 186 /\ registers.f = 170

C22_WitnessZero ==
    /\ last = "flag_zero_set" /\ arg = FALSE
    /\ pre.registers.f = 170 /\ registers.f = 42

\* (high << 8) | low, bit by bit
IsPairOf(pair, high, low) ==
    \A i \in 0 .. 15 : Bit(pair, i) = IF i >= 8 THEN Bit(high, i - 8) ELSE Bit(low, i)

\* C23: set_hl(x) followed by hl() returns x, with H = x >> 8 and L = x & 0xFF
\* and no other register changed; each pair view af / bc / de / hl equals
\* (high << 8) | low, so Ld(BC|DE|HL|SP, Data16(x)) followed by reading that
\* pair returns x.
C23_PairRoundTrip ==
    /\ last = "set_hl" =>
          /\ hl(registers) = arg
          /\ registers.h = arg \div 256 /\ registers.l = arg % 256
          /\ registers = [pre.registers EXCEPT !.h = registers.h, !.l = registers.l]
    /\ IsPairOf(af(registers), registers.a, registers.f)
    /\ IsPairOf(bc(registers), registers.b, registers.c)
    /\ IsPairOf(de(registers), registers.d, registers.e)
    /\ IsPairOf(hl(registers), registers.h, registers.l)
    /\ (ExecutedLd /\ result.op.s1 \in {r16("BC"), r16("DE"), r16("HL"), r16("SP")}
            /\ result.op.s2.kind = "Data16") =>
          /\ result.tag = "Ok"
          /\ fetch_register16(result.op.s1.reg, registers) = result.op.s2.val

C23_Witness ==
    /\ last = "set_hl" /\ arg = 4660 /\ pre.registers.h = 255 /\ pre.registers.l = 255
    /\ registers.h = 18 /\ registers.l = 52 /\ hl(registers) = 4660

C23_WitnessLd ==
    /\ ExecutedLd /\ result.op = Ld(r16("DE"), Data16(4660))
    /\ registers.d = 18 /\ registers.e = 52 /\ pre.registers.d = 1

\* the annotations of the kept lines, in input order
LineAnnotations == LET ls == kept_lines(bios) IN [i \in 1 .. Len(ls) |-> from_line(ls[i]).val]

RECURSIVE SumOver(_, _)
SumOver(m, keys) ==
    IF keys = {} THEN 0
    ELSE LET k == CHOOSE x \in keys : TRUE IN Len(m[k]) + SumOver(m, keys \ {k})

\* the lines of the text that are neither blank nor '#' lines
RecordLines ==
    LET ls == split(bios, 10)
    IN {i \in 1 .. Len(ls) : (\E j \in 1 .. Len(ls[i]) : ls[i][j] \notin WhiteSpace) /\ (ls[i] = << >> \/ ls[i][1] # 35)}

\* C24: Annotation::parse returns a mapping by address in which each address
\* maps to all annotations given for that address, in input order; none is
\* lost or duplicated (the number of entries equals the number of non-blank,
\* non-'#' lines), so two lines with one address both appear under that key.
C24_ParseGroups ==
    (last = "parse" /\ result.tag = "Ok") =>
        /\ DOMAIN annotations = {LineAnnotations[i].location : i \in DOMAIN LineAnnotations}
        /\ \A k \in DOMAIN annotations :
              annotations[k] = SelectSeq(LineAnnotations, LAMBDA a : a.location = k)
        /\ SumOver(annotations, DOMAIN annotations) = Cardinality(RecordLines)

\* "0x10 D 0x05\n0x5 S a b\n0x10 C hello"
C24_Witness ==
    /\ last = "parse" /\ result.tag = "Ok"
    /\ DOMAIN annotations = {5, 16}
    /\ Len(annotations[16]) = 2
    /\ annotations[16][1].purpose = "Data" /\ annotations[16][2].purpose = "Comment"
    /\ annotations[16][2].value = <<104, 101, 108, 108, 111>>
    /\ Len(split(bios, 10)) = 3 /\ split(bios, 10)[2][3] = 53

\* the space-separated fields of a line
Fields(l) == split(l, 32)

IsHexAddress(f) ==
    LET d == IF Len(f) >= 2 /\ f[1] = 48 /\ f[2] = 120 THEN SubSeq(f, 3, Len(f)) ELSE f
    IN d # << >> /\ \A i \in 1 .. Len(d) : d[i] \in (48 .. 57) \cup (97 .. 102) \cup (65 .. 70)

\* the ways in which a line is malformed
Conditions(l) ==
    IF Len(Fields(l)) < 3 THEN {"MissingField"}
    ELSE (IF IsHexAddress(Fields(l)[1]) THEN {} ELSE {"ParseError"})
            \cup (IF Fields(l)[2] \in {<<67>>, <<83>>, <<71>>, <<76>>, <<68>>} THEN {}
                  ELSE {"InvalidMnemonic"})

MalformedLines == {i \in RecordLines : Conditions(split(bios, 10)[i]) # {}}

\* C25: Annotation::parse fails and returns no mapping when any line is
\* malformed, the error naming the condition: fewer than three space-separated
\* fields gives MissingField, an unparsable hex address ParseError, a purpose
\* letter outside C, S, G, L, D InvalidMnemonic; the well-formed lines before
\* or after it are not returned.
C25_ParseRejects ==
    last = "parse" =>
        /\ (result.tag = "Err") = (MalformedLines # {})
        /\ result.tag = "Err" =>
              /\ annotations = << >>
              /\ LET first == CHOOSE i \in MalformedLines : \A j \in MalformedLines : i <= j
                 IN result.msg \in Conditions(split(bios, 10)[first])

\* "0x10 D 0x05\n0x10 W t\n0x10 C hello"
C25_Witness ==
    /\ last = "parse" /\ result.tag = "Err" /\ result.msg = "InvalidMnemonic"
    /\ MalformedLines = {2} /\ RecordLines = {1, 2, 3}
    /\ annotations = << >>

C25_WitnessMissing ==
    /\ last = "parse" /\ result.tag = "Err" /\ result.msg = "MissingField"
    /\ MalformedLines = {3} /\ RecordLines = {1, 3}

C25_WitnessParse ==
    /\ last = "parse" /\ result.tag = "Err" /\ result.msg = "ParseError"
    /\ MalformedLines = {1} /\ RecordLines = {1, 2}
    /\ Conditions(split(bios, 10)[1]) = {"ParseError"}

\* C26: LdInc with HL = 0xFFFF and LdDec with HL = 0x0000 are atomic: either
\* memory[HL] receives the register value and HL wraps modulo 2^16, or neither
\* memory nor HL changes; no call ends with the cell written and HL not
\* updated.
C26_EdgeAtomic ==
    (last = "execute"
        /\ \/ result.op.op = "LdInc" /\ PairHL(pre.registers) = 65535
           \/ result.op.op = "LdDec" /\ PairHL(pre.registers) = 0) =>
        LET h == PairHL(pre.registers)
            h2 == IF result.op.op = "LdInc" THEN 0 ELSE 65535
        IN \/ /\ SameExcept(memory, pre.memory, h, fetch_register8(result.op.r1, pre.registers))
              /\ registers = [pre.registers EXCEPT !.h = h2 \div 256, !.l = h2 % 256]
           \/ /\ memory = pre.memory
              /\ PairHL(registers) = h

\* the same statement for the build without overflow checks
EdgeWrapsUnchecked == checked \/ C26_EdgeAtomic

\* the last execute was a relative jump that was taken
TakenJump == result.op.op = "JumpRNZMemOffset" /\ ~ZeroFlag(pre.registers)

\* execute itself moves the program counter for a taken jump only
ExecuteKeepsPc ==
    (last = "execute" /\ result.tag = "Ok" /\ ~TakenJump) => registers.pc = pre.registers.pc

\* C27: execute changes the program counter only for a taken relative jump;
\* every other successfully executed opcode leaves it where decode left it, so
\* a decode + execute cycle of a straight-line instruction that starts at
\* PC = p ends with PC = p + the encoded length (2 for an extended one).
C27_StraightLinePc ==
    /\ ExecuteKeepsPc
    /\ (prog = "emulator" /\ last = "execute" /\ result.tag = "Ok" /\ ~TakenJump) =>
          registers.pc = After(IF decoded.opbyte = 203 THEN 2 ELSE 1 + ImmSize(decoded.op))

\* the cycle of a straight-line instruction of the direct table
DirectCyclePc ==
    (prog = "emulator" /\ last = "execute" /\ result.tag = "Ok" /\ ~TakenJump
        /\ decoded.opbyte # 203) =>
        registers.pc = After(1 + ImmSize(decoded.op))

\* operand kinds by width
MemoryKinds == {"AddrRegister", "Addr8", "Addr16"}

Is8(slot) == slot.kind \in {"Register8", "Data8"} \cup MemoryKinds

Is16(slot) == slot.kind \in {"Register16", "Data16"}

\* the cell a memory operand names
CellOf(slot, regs) ==
    CASE slot.kind = "AddrRegister" -> AddrOf(slot.reg, regs)
      [] slot.kind = "Addr8" -> 65280 + slot.val
      [] OTHER -> slot.val

\* a Ld of the given source and destination kinds, neither naming F or AF
MixedLd(toKinds, fromKinds) ==
    /\ ExecutedLd
    /\ result.op.s1.kind \in toKinds /\ result.op.s2.kind \in fromKinds
    /\ result.op.s1 \notin IllegalLdSlots /\ result.op.s2 \notin IllegalLdSlots

\* what C28 says of the Ld just executed, for the given kinds
Normalises(toKinds, fromKinds) ==
    LET to == result.op.s1
        v == SourceValue(result.op.s2, pre.registers, pre.memory)
    IN MixedLd(toKinds, fromKinds) =>
          /\ result.tag = "Ok"
          /\ (Is8(result.op.s2) /\ to.kind = "Register16") =>
                /\ fetch_register16(to.reg, registers) = v
                /\ fetch_register16(to.reg, registers) < 256
          /\ (Is16(result.op.s2) /\ to.kind = "Register8") =>
                fetch_register8(to.reg, registers) = v % 256
          /\ (Is16(result.op.s2) /\ to.kind \in MemoryKinds) =>
                SameExcept(memory, pre.memory, CellOf(to, pre.registers), v % 256)

\* wherever a Ld from a memory cell into a pair completes, the high byte is 0
MemorySourceZeroExtended ==
    (MixedLd({"Register16"}, MemoryKinds) /\ result.tag = "Ok") =>
        fetch_register16(result.op.s1.reg, registers) < 256

C28_WitnessNarrow ==
    /\ ExecutedLd /\ result.op = Ld(r8("B"), Data16(4660)) /\ result.tag = "Ok"
    /\ registers.b = 52

\* Ld(DE, Addr8(0)) in a memory whose cells are set
C28_WitnessCell ==
    /\ ExecutedLd /\ result.op = Ld(r16("DE"), Addr8(0)) /\ result.tag = "Ok"
    /\ registers.d = 0 /\ registers.e # 0

\* the fields of the register file an operand is made of
FieldsOf(slot) ==
    CASE slot.kind = "Register8" ->
            (CASE slot.reg = "A" -> {"a"} [] slot.reg = "B" -> {"b"} [] slot.reg = "C" -> {"c"}
               [] slot.reg = "D" -> {"d"} [] slot.reg = "E" -> {"e"} [] slot.reg = "H" -> {"h"}
               [] slot.reg = "L" -> {"l"} [] slot.reg = "F" -> {"f"})
      [] slot.kind \in {"Register16", "AddrRegister"} ->
            (CASE slot.reg = "AF" -> {"a", "f"} [] slot.reg = "BC" -> {"b", "c"}
               [] slot.reg = "DE" -> {"d", "e"} [] slot.reg = "HL" -> {"h", "l"}
               [] slot.reg = "SP" -> {"sp"} [] slot.reg = "C" -> {"c"})
      [] OTHER -> {}

SameOutside(regs, old, fields) == \A k \in DOMAIN regs \ fields : regs[k] = old[k]

ChangedCells == {x \in DOMAIN memory \cup DOMAIN pre.memory : get(memory, x) # get(pre.memory, x)}

SourceKept ==
    SourceValue(result.op.s2, registers, memory)
        = SourceValue(result.op.s2, pre.registers, pre.memory)

\* the frame of a successful Ld; the source is required to keep its value
\* in every case, or only when it shares no register with the destination
LdFrame(whenDisjoint) ==
    LET to == result.op.s1
        from == result.op.s2
    IN (ExecutedLd /\ result.tag = "Ok") =>
          /\ to.kind \in {"Register8", "Register16"} =>
                /\ memory = pre.memory
                /\ SameOutside(registers, pre.registers, FieldsOf(to))
                /\ (whenDisjoint /\ FieldsOf(to) \cap FieldsOf(from) # {}) \/ SourceKept
          /\ to.kind \in MemoryKinds =>
                /\ registers = pre.registers
                /\ Cardinality(ChangedCells) <= 1
          /\ (to = from /\ to.kind = "Register8") =>
                /\ registers = pre.registers /\ memory = pre.memory /\ clock = pre.clock

C29_WitnessCell ==
    /\ ExecutedLd /\ result.op = Ld(addr("HL"), Data8(255)) /\ result.tag = "Ok"
    /\ Cardinality(ChangedCells) = 1 /\ pre.memory # << >>

\* Ld(BC, B)
C29_WitnessOverlap ==
    /\ ExecutedLd /\ result.op = Ld(r16("BC"), r8("B")) /\ result.tag = "Ok"
    /\ pre.registers.b = 161 /\ registers.b = 0 /\ registers.c = 161

\* C30: starting from the default register file (F = 0), after any sequence
\* of execute calls, successful or failed, F is 0x00 or 0x80: only ComplBit
\* writes F and it changes only bit 7, so bit 4 and the reserved bits are
\* never set by the executor.
C30_FlagsStayClean ==
    /\ prog = "emulator" => registers.f \in {0, 128}
    /\ last = "execute" =>
          /\ OtherBits(registers.f, 7) = OtherBits(pre.registers.f, 7)
          /\ registers.f # pre.registers.f => result.op.op = "ComplBit"

\* run() on [0xCB, 0x7C, ..]: ComplBit(7, H) sets the zero flag, later
\* instructions keep it
C30_Witness ==
    /\ prog = "emulator" /\ last = "execute" /\ steps = 4
    /\ registers.f = 128 /\ pre.registers.f = 128 /\ bios[1] = 203

\* C31: for every starting cursor, decode over the 64 KiB memory returns an
\* Opcode or a typed DecodeError and leaves the cursor a valid 16-bit value:
\* when the instruction's bytes reach 0xFFFF the cursor increment does not
\* overflow (it wraps or a typed failure is returned), and no access is out of
\* bounds.
C31_DecodeTotal ==
    (prog = "emulator" /\ AfterDecode) =>
        /\ decoded.tag \in {"Ok", "EndOfStream", "UnknownOpcode", "UnknownExtendedOpcode"}
        /\ registers.pc \in 0 .. 65535

\* the same statement for the build without overflow checks, where the
\* increment wraps
DecodeWrapsUnchecked == checked \/ C31_DecodeTotal

\* a decode whose bytes end at 0xFFFF, in the build without overflow checks
DecodeWrapsReached ==
    /\ prog = "emulator" /\ AfterDecode /\ ~checked
    /\ decoded.start = 65535 /\ decoded.tag = "Ok" /\ registers.pc = 0

\* the address a disassembly loop examines next
LoopIndex == IF prog = "disassemble" THEN idx ELSE index(it)

\* the byte count of the data region just skipped
Skipped == printed.upto - printed.addr + 1

\* C32: in the disassembly loop a D annotation with byte count n > 0 at
\* address a makes the loop skip exactly n bytes: the next address it examines
\* is a + n, and none of the bytes a .. a + n - 1 is decoded.
C32_SkipsDataRegion ==
    (last = "disassemble" /\ printed.kind = "Skip") =>
        \/ LoopIndex = printed.addr + Skipped
        \/ prog = "main_disassemble" /\ printed.addr + Skipped > Len(bios) /\ LoopIndex = Len(bios)

\* the loop of main.rs, which skips with it.nth(skip - 1)
MainSkipsDataRegion == prog = "main_disassemble" => C32_SkipsDataRegion

MainSkipReached ==
    /\ prog = "main_disassemble" /\ last = "disassemble" /\ printed.kind = "Skip"
    /\ printed.addr = 0 /\ printed.upto = 1 /\ index(it) = 2 /\ Len(bios) = 3

\* the last iteration printed a relative jump at an address without a G record
PrintedJump ==
    /\ last = "disassemble" /\ printed.kind = "Op" /\ IsRelativeJump(printed.op)
    /\ \A i \in DOMAIN annotations_get(annotations, printed.addr) :
          annotations_get(annotations, printed.addr)[i].purpose # "Goto"

\* C33: for a relative jump decoded at address a with displacement d and no G
\* annotation at a, the disassembler prints the target (a + 2) + d, the
\* address the executor's taken jump sets PC to.
C33_JumpTarget ==
    PrintedJump => (printed.jump /\ printed.target = printed.addr + 2 + printed.op.n)

\* the loop of main.rs, which adds the displacement to it.index() after decode
MainJumpTarget == prog = "main_disassemble" => C33_JumpTarget

MainJumpReached ==
    /\ prog = "main_disassemble" /\ PrintedJump
    /\ printed.addr = 1 /\ printed.op = JumpRNZMemOffset(-3) /\ printed.target = 0

\* the executor's taken jump lands on (a + 2) + d, modulo 2^16
ExecutorJumpTarget ==
    (prog = "emulator" /\ last = "execute" /\ result.tag = "Ok" /\ TakenJump) =>
        registers.pc = After(2 + result.op.n)

\* the elements the direct next() calls have returned so far
ReturnedCalls == {i \in DOMAIN calls : calls[i].some}

\* C34: for an IndexedIter built from a vector of length n, index() equals the
\* number of elements next() has returned: 0 at first, one more per returned
\* element, never more than n, and n after every next() that returns None.
C34_IndexCountsReturned ==
    prog = "indexediter" =>
        /\ index(it) = Cardinality(ReturnedCalls)
        /\ calls = << >> => index(it) = 0
        /\ index(it) <= Len(bios)
        /\ \A i \in DOMAIN calls : ~calls[i].some => (index(it) = Len(bios) /\ i > Len(bios))
        /\ \A i \in ReturnedCalls : calls[i].value = bios[i]

C34_Witness ==
    /\ prog = "indexediter" /\ bios = <<1, 2, 3>> /\ Len(calls) = 4
    /\ calls[3] = [some |-> TRUE, value |-> 3] /\ ~calls[4].some
    /\ index(it) = 3

\* an iterator drained early keeps its index over repeated None results
C34_WitnessDrained ==
    /\ prog = "indexediter" /\ bios = <<2>> /\ Len(calls) = 3
    /\ ~calls[2].some /\ ~calls[3].some /\ index(it) = 1

====
